---- MODULE Spec2Model ----
(***************************************************************************)
(* Pool and sauna controller (firmware 0.06, poolAndSaunaController.ino):  *)
(* two temperature control loops, each a four-state machine driven by the  *)
(* 100 ms polling loop, with settings kept in EEPROM.  Firmware 0.09       *)
(* (part_000) is the same program with a cloud function for relays 3 and 4 *)
(* and an automatic switch-off added; of its ambient sensors, whose values *)
(* are only published, the time spent reading them is kept.                *)
(*                                                                         *)
(* Temperatures are doubles in the firmware; here they are integers in     *)
(* hundredths of a degree (Deg(30) = 3000, the margin 0.25 = 25).          *)
(* Times are milliseconds.  An elapsed-time counter is kept up to the      *)
(* largest value the firmware compares it with and saturates there.        *)
(* Strings that are parsed (the cloud function parameters) are sequences   *)
(* of one-character strings.                                               *)
(***************************************************************************)
EXTENDS Integers, Sequences, FiniteSets, TLC

VARIABLES
  state,                     \* String state / state2: the published status
  lastState,                 \* String lastState / lastState2
  currentState,              \* FSM::currentState of stateMachine1 / 2
  nextState,                 \* FSM::nextState of stateMachine1 / 2
  needToTriggerEnter,        \* FSM::needToTriggerEnter
  timeInCurrentState,        \* millis() - FSM::stateChangeTime, saturating
  temperatureCurrent,        \* temperatureCurrent / temperatureCurrent2
  temperatureTarget,         \* temperatureTarget / temperatureTarget2
  temperatureCalibration,    \* temperatureCalibration / temperatureCalibration2
  relay,                     \* the four outputs of the relay board
  eeprom,                    \* the EepromMemoryStructure stored at EEPROM_ADDRESS
  quickLoopTimer,            \* elapsedMillis quickLoopTimer, saturating
  temperatureSampleInterval, \* elapsedMillis temperatureSampleInterval, saturating
  sinceEntered,              \* time since currentState last changed (history)
  lastSample,                \* how the loop's latest sensor sample since boot ended (history)
  focus,                     \* the loop this run exercises; the other one is left alone
  suspended,                 \* the calls waiting in delay(), innermost last: where each
                             \* waits and how long it still has to
  timerOnRelay,              \* 0.09: elapsedMillis timerOnRelay1 .. 4, saturating
  turnOffRelayAfterTime,     \* 0.09: int turnOffRelay1AfterTime .. 4, 0 when not armed
  bDHTstarted,               \* 0.09: bool bDHTstarted, an acquisition of the DHT is under way
  momentaryCalls             \* 0.09: the "momentary" commands since boot (history)

vars == << state, lastState, currentState, nextState, needToTriggerEnter,
           timeInCurrentState, temperatureCurrent, temperatureTarget,
           temperatureCalibration, relay, eeprom, quickLoopTimer,
           temperatureSampleInterval, sinceEntered, lastSample, focus, suspended,
           timerOnRelay, turnOffRelayAfterTime, bDHTstarted, momentaryCalls >>

\* the variables that only firmware 0.09 has
relayVars == << timerOnRelay, turnOffRelayAfterTime, bDHTstarted, momentaryCalls >>

(***************************************************************************)
(* Program constants                                                       *)
(***************************************************************************)
STATE_INIT == "Initializing"
STATE_OFF == "Off"
STATE_IDLE == "Idle"
STATE_ON == "On"

QUICK_LOOP_INTERVAL == 100
MILLISECONDS_TO_MINUTES == 60000
MILLISECONDS_TO_SECONDS == 1000
initTimeout == 10
minimumTimeInState == 1
TEMPERATURE_SAMPLE_INTERVAL == 30 * MILLISECONDS_TO_SECONDS
EEPROM_VERSION == 139
BLANK_BYTE == 255
BACKOFF_DELAY == 1000

Deg(n) == 100 * n
INVALID == Deg(-1)
temperatureMargin == 25
NaN == "NaN"

Loops == {1, 2}
Relays == 1 .. 4
RelayOf(l) == l
DefaultTarget(l) == IF l = 1 THEN Deg(30) ELSE Deg(37)

\* the four State objects of each state machine
initState == "initState"
offState == "offState"
idleState == "idleState"
onState == "onState"
FsmStates == {initState, offState, idleState, onState}

Min(a, b) == IF a < b THEN a ELSE b
Max(a, b) == IF a > b THEN a ELSE b

\* largest value a state timer is compared with
TimerCap == Max(initTimeout * MILLISECONDS_TO_SECONDS,
                minimumTimeInState * MILLISECONDS_TO_MINUTES)

(***************************************************************************)
(* Strings: String::equalsIgnoreCase and atoi on the cloud parameters      *)
(***************************************************************************)
UpperChars == << "A", "B", "C", "D", "E", "F", "G", "H", "I", "J", "K", "L", "M",
                 "N", "O", "P", "Q", "R", "S", "T", "U", "V", "W", "X", "Y", "Z" >>
LowerChars == << "a", "b", "c", "d", "e", "f", "g", "h", "i", "j", "k", "l", "m",
                 "n", "o", "p", "q", "r", "s", "t", "u", "v", "w", "x", "y", "z" >>
DigitChars == << "0", "1", "2", "3", "4", "5", "6", "7", "8", "9" >>

toLowerChar(c) ==
  IF \E i \in 1 .. 26 : UpperChars[i] = c
    THEN LowerChars[CHOOSE i \in 1 .. 26 : UpperChars[i] = c]
    ELSE c

equalsIgnoreCase(a, b) ==
  /\ Len(a) = Len(b)
  /\ \A i \in 1 .. Len(a) : toLowerChar(a[i]) = toLowerChar(b[i])

isDigit(c) == \E i \in 1 .. 10 : DigitChars[i] = c
digitValue(c) == (CHOOSE i \in 1 .. 10 : DigitChars[i] = c) - 1

RECURSIVE atoiDigits(_, _, _)
atoiDigits(s, i, acc) ==
  IF i <= Len(s) /\ isDigit(s[i])
    THEN atoiDigits(s, i + 1, 10 * acc + digitValue(s[i]))
    ELSE acc

\* the characters of isspace(): blank, tab, line feed, vertical tab, form feed and
\* carriage return
WhiteSpaceChars == { " ", "\t", "\n", "", "\f", "\r" }
isSpace(c) == c \in WhiteSpaceChars

RECURSIVE skipSpaces(_, _)
skipSpaces(s, i) == IF i <= Len(s) /\ isSpace(s[i]) THEN skipSpaces(s, i + 1) ELSE i

\* the decimal text of an integer, as a cloud function receives it
RECURSIVE DigitsOf(_)
DigitsOf(n) ==
  IF n < 10 THEN << DigitChars[n + 1] >>
  ELSE Append(DigitsOf(n \div 10), DigitChars[(n % 10) + 1])
IntToParam(n) == IF n < 0 THEN << "-" >> \o DigitsOf(0 - n) ELSE DigitsOf(n)

\* atoi: leading white space, an optional sign, then digits up to the first other
\* character
atoi(s) ==
  LET i == skipSpaces(s, 1)
  IN  IF i <= Len(s) /\ s[i] = "-" THEN 0 - atoiDigits(s, i + 1, 0)
      ELSE IF i <= Len(s) /\ s[i] = "+" THEN atoiDigits(s, i + 1, 0)
      ELSE atoiDigits(s, i, 0)

(***************************************************************************)
(* The program's memory as one record, so that a handler is a function     *)
(* from memory to memory and handlers compose as the calls do.             *)
(***************************************************************************)
Mem ==
  [ state |-> state, lastState |-> lastState,
    currentState |-> currentState, nextState |-> nextState,
    needToTriggerEnter |-> needToTriggerEnter,
    timeInCurrentState |-> timeInCurrentState,
    temperatureCurrent |-> temperatureCurrent,
    temperatureTarget |-> temperatureTarget,
    temperatureCalibration |-> temperatureCalibration,
    relay |-> relay, eeprom |-> eeprom, relayCalls |-> << >> ]

(***************************************************************************)
(* EEPROM functions                                                        *)
(***************************************************************************)
convertIntToLastState(lastSt) == IF lastSt = 1 THEN STATE_IDLE ELSE STATE_OFF

\* variant: only Idle is stored as "was on"
convertLastStateToInt_idleOnly(lastSt) ==
  IF lastSt = STATE_IDLE THEN 1 ELSE 0

convertLastStateToInt(lastSt) ==
  IF lastSt = STATE_IDLE \/ lastSt = STATE_ON THEN 1 ELSE 0

\* EEPROM content never written: every byte 255, so the doubles are NaN
blankEeprom ==
  [ version |-> BLANK_BYTE,
    temperatureTarget |-> NaN, temperatureCalibration |-> NaN, lastState |-> BLANK_BYTE,
    temperatureTarget2 |-> NaN, temperatureCalibration2 |-> NaN, lastState2 |-> BLANK_BYTE ]

saveSettingsInEeprom(m) ==
  [ m EXCEPT !.eeprom =
      [ version |-> EEPROM_VERSION,
        temperatureTarget |-> m.temperatureTarget[1],
        temperatureCalibration |-> m.temperatureCalibration[1],
        lastState |-> convertLastStateToInt(m.lastState[1]),
        temperatureTarget2 |-> m.temperatureTarget[2],
        temperatureCalibration2 |-> m.temperatureCalibration[2],
        lastState2 |-> convertLastStateToInt(m.lastState[2]) ] ]

\* variant: records of earlier versions are accepted too
readFromEeprom_acceptsOlderVersions(m) ==
  IF m.eeprom.version <= EEPROM_VERSION
    THEN [ m EXCEPT
             !.temperatureTarget =
                (1 :> m.eeprom.temperatureTarget) @@ (2 :> m.eeprom.temperatureTarget2),
             !.temperatureCalibration =
                (1 :> m.eeprom.temperatureCalibration) @@ (2 :> m.eeprom.temperatureCalibration2),
             !.lastState =
                (1 :> convertIntToLastState(m.eeprom.lastState))
                  @@ (2 :> convertIntToLastState(m.eeprom.lastState2)) ]
    ELSE m

\* variant: the second loop's calibration is read from the first loop's field
readFromEeprom_firstCalibrationTwice(m) ==
  IF m.eeprom.version = EEPROM_VERSION
    THEN [ m EXCEPT
             !.temperatureTarget =
                (1 :> m.eeprom.temperatureTarget) @@ (2 :> m.eeprom.temperatureTarget2),
             !.temperatureCalibration =
                (1 :> m.eeprom.temperatureCalibration) @@ (2 :> m.eeprom.temperatureCalibration),
             !.lastState =
                (1 :> convertIntToLastState(m.eeprom.lastState))
                  @@ (2 :> convertIntToLastState(m.eeprom.lastState2)) ]
    ELSE m

readFromEeprom(m) ==
  IF m.eeprom.version = EEPROM_VERSION
    THEN [ m EXCEPT
             !.temperatureTarget =
                (1 :> m.eeprom.temperatureTarget) @@ (2 :> m.eeprom.temperatureTarget2),
             !.temperatureCalibration =
                (1 :> m.eeprom.temperatureCalibration) @@ (2 :> m.eeprom.temperatureCalibration2),
             !.lastState =
                (1 :> convertIntToLastState(m.eeprom.lastState))
                  @@ (2 :> convertIntToLastState(m.eeprom.lastState2)) ]
    ELSE m

(***************************************************************************)
(* Helper functions                                                        *)
(***************************************************************************)
\* variant: the new state is not written to the EEPROM
setState_notSaved(m, newState, setLastState) ==
  [ m EXCEPT !.state[1] = newState,
             !.lastState[1] = IF setLastState THEN newState ELSE @ ]

setState(m, newState, setLastState) ==
  saveSettingsInEeprom(
    [ m EXCEPT !.state[1] = newState,
               !.lastState[1] = IF setLastState THEN newState ELSE @ ])

\* setState2: the same for the second loop
setState2(m, newState, setLastState) ==
  saveSettingsInEeprom(
    [ m EXCEPT !.state[2] = newState,
               !.lastState[2] = IF setLastState THEN newState ELSE @ ])

turnOnRelay(m, r) ==
  [ m EXCEPT !.relay[r] = TRUE, !.relayCalls = Append(@, << "on", r >>) ]

turnOffRelay(m, r) ==
  [ m EXCEPT !.relay[r] = FALSE, !.relayCalls = Append(@, << "off", r >>) ]

turnOffAllRelays(m) ==
  [ m EXCEPT !.relay = [ r \in Relays |-> FALSE ],
             !.relayCalls = Append(@, << "allOff", 0 >>) ]

(***************************************************************************)
(* FiniteStateMachine library: transitionTo only records the request (and  *)
(* restarts the state timer); the next update() performs it.               *)
(***************************************************************************)
transitionTo(m, l, s) ==
  [ m EXCEPT !.nextState[l] = s, !.timeInCurrentState[l] = 0 ]

(***************************************************************************)
(* FSM state functions of stateMachine1                                     *)
(***************************************************************************)
\* variant: entering Init sets the last state as the other states do
initEnterFunction_setsLastState(m) == setState(m, STATE_INIT, TRUE)

initEnterFunction(m) == setState(m, STATE_INIT, FALSE)

\* variant: the init timeout is not waited for
initUpdateFunction_noTimeout(m) ==
  IF m.lastState[1] = STATE_IDLE
    THEN transitionTo(m, 1, idleState)
    ELSE transitionTo(m, 1, offState)

\* variant: a loop that was on resumes straight into the on state
initUpdateFunction_toOn(m) ==
  IF m.timeInCurrentState[1] < initTimeout * MILLISECONDS_TO_SECONDS
    THEN m
    ELSE IF m.lastState[1] = STATE_IDLE
           THEN transitionTo(m, 1, onState)
           ELSE transitionTo(m, 1, offState)

initUpdateFunction(m) ==
  IF m.timeInCurrentState[1] < initTimeout * MILLISECONDS_TO_SECONDS
    THEN m
    ELSE IF m.lastState[1] = STATE_IDLE
           THEN transitionTo(m, 1, idleState)
           ELSE transitionTo(m, 1, offState)

initExitFunction(m) == m

offEnterFunction(m) == setState(m, STATE_OFF, TRUE)

\* variant: the off state evaluates the temperature
offUpdateFunction_heats(m) ==
  IF /\ m.temperatureCurrent[1] # INVALID
     /\ m.temperatureCurrent[1] <= m.temperatureTarget[1] - temperatureMargin
    THEN transitionTo(m, 1, onState)
    ELSE m

offUpdateFunction(m) == m

offExitFunction(m) == m

idleEnterFunction(m) == setState(m, STATE_IDLE, TRUE)

\* variant: the margin is left out of the comparison
idleUpdateFunction_noMargin(m) ==
  IF m.timeInCurrentState[1] < minimumTimeInState * MILLISECONDS_TO_MINUTES
    THEN m
    ELSE IF /\ m.temperatureCurrent[1] # INVALID
            /\ m.temperatureCurrent[1] <= m.temperatureTarget[1]
           THEN transitionTo(m, 1, onState)
           ELSE m

\* variant: the current temperature is compared even when it is INVALID
idleUpdateFunction_noInvalidCheck(m) ==
  IF m.timeInCurrentState[1] < minimumTimeInState * MILLISECONDS_TO_MINUTES
    THEN m
    ELSE IF m.temperatureCurrent[1] <= m.temperatureTarget[1] - temperatureMargin
           THEN transitionTo(m, 1, onState)
           ELSE m

\* variant: the minimum-time check is left out
idleUpdateFunction_noDwell(m) ==
  IF /\ m.temperatureCurrent[1] # INVALID
     /\ m.temperatureCurrent[1] <= m.temperatureTarget[1] - temperatureMargin
    THEN transitionTo(m, 1, onState)
    ELSE m

idleUpdateFunction(m) ==
  IF m.timeInCurrentState[1] < minimumTimeInState * MILLISECONDS_TO_MINUTES
    THEN m
    ELSE IF /\ m.temperatureCurrent[1] # INVALID
            /\ m.temperatureCurrent[1] <= m.temperatureTarget[1] - temperatureMargin
           THEN transitionTo(m, 1, onState)
           ELSE m

idleExitFunction(m) == m

onEnterFunction(m) == turnOnRelay(setState(m, STATE_ON, TRUE), 1)

\* variant: the temperature has to be above target + margin
onUpdateFunction_strictlyAbove(m) ==
  IF m.timeInCurrentState[1] < minimumTimeInState * MILLISECONDS_TO_MINUTES
    THEN m
    ELSE IF /\ m.temperatureCurrent[1] # INVALID
            /\ m.temperatureCurrent[1] > m.temperatureTarget[1] + temperatureMargin
           THEN transitionTo(m, 1, idleState)
           ELSE m

\* variant: the margin is left out of the comparison
onUpdateFunction_noMargin(m) ==
  IF m.timeInCurrentState[1] < minimumTimeInState * MILLISECONDS_TO_MINUTES
    THEN m
    ELSE IF /\ m.temperatureCurrent[1] # INVALID
            /\ m.temperatureCurrent[1] >= m.temperatureTarget[1]
           THEN transitionTo(m, 1, idleState)
           ELSE m

onUpdateFunction(m) ==
  IF m.timeInCurrentState[1] < minimumTimeInState * MILLISECONDS_TO_MINUTES
    THEN m
    ELSE IF /\ m.temperatureCurrent[1] # INVALID
            /\ m.temperatureCurrent[1] >= m.temperatureTarget[1] + temperatureMargin
           THEN transitionTo(m, 1, idleState)
           ELSE m

\* variant: leaving the on state switches every relay off
onExitFunction_allRelaysOff(m) == turnOffAllRelays(m)

\* variant: the exit function does not switch the relay
onExitFunction_noRelay(m) == m

onExitFunction(m) == turnOffRelay(m, 1)

(***************************************************************************)
(* FSM state functions of stateMachine2                                    *)
(***************************************************************************)
initEnterFunction2(m) == setState2(m, STATE_INIT, FALSE)

initUpdateFunction2(m) ==
  IF m.timeInCurrentState[2] < initTimeout * MILLISECONDS_TO_SECONDS
    THEN m
    ELSE IF m.lastState[2] = STATE_IDLE
           THEN transitionTo(m, 2, idleState)
           ELSE transitionTo(m, 2, offState)

initExitFunction2(m) == m

offEnterFunction2(m) == setState2(m, STATE_OFF, TRUE)

offUpdateFunction2(m) == m

offExitFunction2(m) == m

idleEnterFunction2(m) == setState2(m, STATE_IDLE, TRUE)

idleUpdateFunction2(m) ==
  IF m.timeInCurrentState[2] < minimumTimeInState * MILLISECONDS_TO_MINUTES
    THEN m
    ELSE IF /\ m.temperatureCurrent[2] # INVALID
            /\ m.temperatureCurrent[2] <= m.temperatureTarget[2] - temperatureMargin
           THEN transitionTo(m, 2, onState)
           ELSE m

idleExitFunction2(m) == m

onEnterFunction2(m) == turnOnRelay(setState2(m, STATE_ON, TRUE), 2)

onUpdateFunction2(m) ==
  IF m.timeInCurrentState[2] < minimumTimeInState * MILLISECONDS_TO_MINUTES
    THEN m
    ELSE IF /\ m.temperatureCurrent[2] # INVALID
            /\ m.temperatureCurrent[2] >= m.temperatureTarget[2] + temperatureMargin
           THEN transitionTo(m, 2, idleState)
           ELSE m

onExitFunction2(m) == turnOffRelay(m, 2)

\* State::enter / update / exit: call the function the State was built with. The
\* State objects of stateMachine2 (initState2, offState2, idleState2, onState2)
\* bear the names of those of stateMachine1 here; the loop tells them apart.
stateEnter(m, l, s) ==
  CASE l = 1 /\ s = initState -> initEnterFunction(m)
    [] l = 1 /\ s = offState -> offEnterFunction(m)
    [] l = 1 /\ s = idleState -> idleEnterFunction(m)
    [] l = 1 /\ s = onState -> onEnterFunction(m)
    [] l = 2 /\ s = initState -> initEnterFunction2(m)
    [] l = 2 /\ s = offState -> offEnterFunction2(m)
    [] l = 2 /\ s = idleState -> idleEnterFunction2(m)
    [] l = 2 /\ s = onState -> onEnterFunction2(m)

stateUpdate(m, l, s) ==
  CASE l = 1 /\ s = initState -> initUpdateFunction(m)
    [] l = 1 /\ s = offState -> offUpdateFunction(m)
    [] l = 1 /\ s = idleState -> idleUpdateFunction(m)
    [] l = 1 /\ s = onState -> onUpdateFunction(m)
    [] l = 2 /\ s = initState -> initUpdateFunction2(m)
    [] l = 2 /\ s = offState -> offUpdateFunction2(m)
    [] l = 2 /\ s = idleState -> idleUpdateFunction2(m)
    [] l = 2 /\ s = onState -> onUpdateFunction2(m)

stateExit(m, l, s) ==
  CASE l = 1 /\ s = initState -> initExitFunction(m)
    [] l = 1 /\ s = offState -> offExitFunction(m)
    [] l = 1 /\ s = idleState -> idleExitFunction(m)
    [] l = 1 /\ s = onState -> onExitFunction(m)
    [] l = 2 /\ s = initState -> initExitFunction2(m)
    [] l = 2 /\ s = offState -> offExitFunction2(m)
    [] l = 2 /\ s = idleState -> idleExitFunction2(m)
    [] l = 2 /\ s = onState -> onExitFunction2(m)

immediateTransitionTo(m, l, s) ==
  LET m1 == stateExit(m, l, m.currentState[l])
      m2 == [ m1 EXCEPT !.currentState[l] = s, !.nextState[l] = s ]
      m3 == stateEnter(m2, l, s)
  IN  [ m3 EXCEPT !.timeInCurrentState[l] = 0 ]

fsmUpdate(m, l) ==
  IF m.needToTriggerEnter[l]
    THEN [ stateEnter(m, l, m.currentState[l]) EXCEPT !.needToTriggerEnter[l] = FALSE ]
    ELSE LET m1 == IF m.currentState[l] # m.nextState[l]
                     THEN immediateTransitionTo(m, l, m.nextState[l])
                     ELSE m
         IN  stateUpdate(m1, l, m1.currentState[l])

(***************************************************************************)
(* Sensor functions.  A device answer is what the DS18B20 driver returns   *)
(* to one call of getTemp: search(), and for each successive               *)
(* getTemperature() the value read and whether crcCheck() passes.          *)
(* useFahrenheit is the constant false, so no unit conversion takes place. *)
(***************************************************************************)
\* variant: the loop allows six retries
RECURSIVE retryLoop_sixRetries(_, _, _)
retryLoop_sixRetries(reads, idx, dsAttempts) ==
  IF ~reads[idx].crc /\ dsAttempts < 6
    THEN LET attempts == dsAttempts + 1
             rest == retryLoop_sixRetries(reads, idx + 1, attempts)
         IN  [ rest EXCEPT !.delay = @ + (IF attempts = 3 THEN BACKOFF_DELAY ELSE 0),
                           !.backoffs = IF attempts = 3 THEN << idx + 1 >> \o @ ELSE @ ]
    ELSE [ last |-> idx, delay |-> 0, backoffs |-> << >> ]

\* variant: the wait comes before the fourth retry
RECURSIVE retryLoop_backoffBeforeLast(_, _, _)
retryLoop_backoffBeforeLast(reads, idx, dsAttempts) ==
  IF ~reads[idx].crc /\ dsAttempts < 4
    THEN LET attempts == dsAttempts + 1
             rest == retryLoop_backoffBeforeLast(reads, idx + 1, attempts)
         IN  [ rest EXCEPT !.delay = @ + (IF attempts = 4 THEN BACKOFF_DELAY ELSE 0),
                           !.backoffs = IF attempts = 4 THEN << idx + 1 >> \o @ ELSE @ ]
    ELSE [ last |-> idx, delay |-> 0, backoffs |-> << >> ]

\* the retry loop: returns the index of the last read made, the time spent in delay()
\* and the reads that a delay() came just before
RECURSIVE retryLoop(_, _, _)
retryLoop(reads, idx, dsAttempts) ==
  IF ~reads[idx].crc /\ dsAttempts < 4
    THEN LET attempts == dsAttempts + 1
             rest == retryLoop(reads, idx + 1, attempts)
         IN  [ rest EXCEPT !.delay = @ + (IF attempts = 3 THEN BACKOFF_DELAY ELSE 0),
                           !.backoffs = IF attempts = 3 THEN << idx + 1 >> \o @ ELSE @ ]
    ELSE [ last |-> idx, delay |-> 0, backoffs |-> << >> ]

\* variant: the last reading is taken whether or not its checksum is right
getTemp_noCrcCheck(m, dev) ==
  IF dev.search
    THEN [ m |-> m, delay |-> 0, reads |-> 0, sample |-> "none" ]
    ELSE LET r == retryLoop(dev.reads, 1, 0)
             temperatureLocal == dev.reads[r.last].raw + m.temperatureCalibration[1]
         IN  [ m |-> IF temperatureLocal # INVALID
                       THEN [ m EXCEPT !.temperatureCurrent[1] = temperatureLocal ]
                       ELSE m,
               delay |-> r.delay,
               reads |-> r.last,
               sample |-> IF dev.reads[r.last].crc THEN "ok" ELSE "failed" ]

getTemp(m, dev) ==
  IF dev.search
    THEN [ m |-> m, delay |-> 0, reads |-> 0, sample |-> "none" ]
    ELSE LET r == retryLoop(dev.reads, 1, 0)
             temperatureLocal == dev.reads[r.last].raw + m.temperatureCalibration[1]
         IN  [ m |-> IF temperatureLocal # INVALID /\ dev.reads[r.last].crc
                       THEN [ m EXCEPT !.temperatureCurrent[1] = temperatureLocal ]
                       ELSE m,
               delay |-> r.delay,
               reads |-> r.last,
               sample |-> IF dev.reads[r.last].crc THEN "ok" ELSE "failed" ]

\* the retry loop of getTemp2
RECURSIVE retryLoop2(_, _, _)
retryLoop2(reads, idx, dsAttempts) ==
  IF ~reads[idx].crc /\ dsAttempts < 4
    THEN LET attempts == dsAttempts + 1
             rest == retryLoop2(reads, idx + 1, attempts)
         IN  [ rest EXCEPT !.delay = @ + (IF attempts = 3 THEN BACKOFF_DELAY ELSE 0),
                           !.backoffs = IF attempts = 3 THEN << idx + 1 >> \o @ ELSE @ ]
    ELSE [ last |-> idx, delay |-> 0, backoffs |-> << >> ]

\* variant: the second sensor's reading is taken without its calibration
getTemp2_uncalibrated(m, dev) ==
  IF dev.search
    THEN [ m |-> m, delay |-> 0, reads |-> 0, sample |-> "none" ]
    ELSE LET r == retryLoop2(dev.reads, 1, 0)
             temperatureLocal == dev.reads[r.last].raw
         IN  [ m |-> IF temperatureLocal # INVALID /\ dev.reads[r.last].crc
                       THEN [ m EXCEPT !.temperatureCurrent[2] = temperatureLocal ]
                       ELSE m,
               delay |-> r.delay,
               reads |-> r.last,
               sample |-> IF dev.reads[r.last].crc THEN "ok" ELSE "failed" ]

\* getTemp2: the second sensor, for temperatureCurrent2
getTemp2(m, dev) ==
  IF dev.search
    THEN [ m |-> m, delay |-> 0, reads |-> 0, sample |-> "none" ]
    ELSE LET r == retryLoop2(dev.reads, 1, 0)
             temperatureLocal == dev.reads[r.last].raw + m.temperatureCalibration[2]
         IN  [ m |-> IF temperatureLocal # INVALID /\ dev.reads[r.last].crc
                       THEN [ m EXCEPT !.temperatureCurrent[2] = temperatureLocal ]
                       ELSE m,
               delay |-> r.delay,
               reads |-> r.last,
               sample |-> IF dev.reads[r.last].crc THEN "ok" ELSE "failed" ]

\* readTemperature once the sample interval has elapsed: getTemp(); getTemp2();
readTemperature(m, dev1, dev2) ==
  LET g1 == getTemp(m, dev1)
      g2 == getTemp2(g1.m, dev2)
  IN  [ m |-> g2.m, delay |-> g1.delay + g2.delay,
        sample |-> (1 :> g1.sample) @@ (2 :> g2.sample) ]

(***************************************************************************)
(* Control functions (cloud functions)                                     *)
(***************************************************************************)
Str_on == << "o", "n" >>
Str_off == << "o", "f", "f" >>

\* variant: "off" is accepted from Idle only
setOnOff_offOnlyFromIdle(m, parameter) ==
  IF equalsIgnoreCase(parameter, Str_on)
    THEN [ m |-> IF m.state[1] = STATE_OFF THEN transitionTo(m, 1, idleState) ELSE m,
           ret |-> 0 ]
    ELSE IF equalsIgnoreCase(parameter, Str_off)
           THEN [ m |-> IF m.state[1] = STATE_IDLE
                          THEN transitionTo(m, 1, offState)
                          ELSE m,
                  ret |-> 0 ]
           ELSE [ m |-> m, ret |-> -1 ]

\* variant: the parameter is compared with case
setOnOff_caseSensitive(m, parameter) ==
  IF parameter = Str_on
    THEN [ m |-> IF m.state[1] = STATE_OFF THEN transitionTo(m, 1, idleState) ELSE m,
           ret |-> 0 ]
    ELSE IF parameter = Str_off
           THEN [ m |-> IF m.state[1] = STATE_IDLE \/ m.state[1] = STATE_ON
                          THEN transitionTo(m, 1, offState)
                          ELSE m,
                  ret |-> 0 ]
           ELSE [ m |-> m, ret |-> -1 ]

\* variant: "on" takes a loop that is off straight to the on state
setOnOff_straightToOn(m, parameter) ==
  IF equalsIgnoreCase(parameter, Str_on)
    THEN [ m |-> IF m.state[1] = STATE_OFF THEN transitionTo(m, 1, onState) ELSE m,
           ret |-> 0 ]
    ELSE IF equalsIgnoreCase(parameter, Str_off)
           THEN [ m |-> IF m.state[1] = STATE_IDLE \/ m.state[1] = STATE_ON
                          THEN transitionTo(m, 1, offState)
                          ELSE m,
                  ret |-> 0 ]
           ELSE [ m |-> m, ret |-> -1 ]

setOnOff(m, parameter) ==
  IF equalsIgnoreCase(parameter, Str_on)
    THEN [ m |-> IF m.state[1] = STATE_OFF THEN transitionTo(m, 1, idleState) ELSE m,
           ret |-> 0 ]
    ELSE IF equalsIgnoreCase(parameter, Str_off)
           THEN [ m |-> IF m.state[1] = STATE_IDLE \/ m.state[1] = STATE_ON
                          THEN transitionTo(m, 1, offState)
                          ELSE m,
                  ret |-> 0 ]
           ELSE [ m |-> m, ret |-> -1 ]

\* variant: there is no upper limit
setTarget_noUpperLimit(m, parameter) ==
  LET localValue == Deg(atoi(parameter))
  IN  IF localValue >= Deg(0)
        THEN [ m |-> saveSettingsInEeprom([ m EXCEPT !.temperatureTarget[1] = localValue ]),
               ret |-> 0 ]
        ELSE [ m |-> m, ret |-> -1 ]

\* variant: the upper limit itself is refused
setTarget_exclusiveUpper(m, parameter) ==
  LET localValue == Deg(atoi(parameter))
  IN  IF localValue >= Deg(0) /\ localValue < Deg(125)
        THEN [ m |-> saveSettingsInEeprom([ m EXCEPT !.temperatureTarget[1] = localValue ]),
               ret |-> 0 ]
        ELSE [ m |-> m, ret |-> -1 ]

setTarget(m, parameter) ==
  LET localValue == Deg(atoi(parameter))
  IN  IF localValue >= Deg(0) /\ localValue <= Deg(125)
        THEN [ m |-> saveSettingsInEeprom([ m EXCEPT !.temperatureTarget[1] = localValue ]),
               ret |-> 0 ]
        ELSE [ m |-> m, ret |-> -1 ]

\* variant: the new calibration is left for the next sample to apply
setCalibration_futureOnly(m, parameter) ==
  LET localValue == Deg(atoi(parameter))
  IN  IF localValue >= Deg(-50) /\ localValue <= Deg(50)
        THEN [ m |-> saveSettingsInEeprom([ m EXCEPT !.temperatureCalibration[1] = localValue ]),
               ret |-> 0 ]
        ELSE [ m |-> m, ret |-> -1 ]

\* variant: the previous calibration is not taken back out of the current temperature
setCalibration_noRollback(m, parameter) ==
  LET localValue == Deg(atoi(parameter))
  IN  IF localValue >= Deg(-50) /\ localValue <= Deg(50)
        THEN [ m |-> saveSettingsInEeprom(
                       [ m EXCEPT !.temperatureCalibration[1] = localValue,
                                  !.temperatureCurrent[1] = @ + localValue ]),
               ret |-> 0 ]
        ELSE [ m |-> m, ret |-> -1 ]

setCalibration(m, parameter) ==
  LET localValue == Deg(atoi(parameter))
  IN  IF localValue >= Deg(-50) /\ localValue <= Deg(50)
        THEN LET rolledBack == m.temperatureCurrent[1] - m.temperatureCalibration[1]
             IN  [ m |-> saveSettingsInEeprom(
                           [ m EXCEPT !.temperatureCalibration[1] = localValue,
                                      !.temperatureCurrent[1] = rolledBack + localValue ]),
                   ret |-> 0 ]
        ELSE [ m |-> m, ret |-> -1 ]

\* the cloud functions of the second loop
setOnOff2(m, parameter) ==
  IF equalsIgnoreCase(parameter, Str_on)
    THEN [ m |-> IF m.state[2] = STATE_OFF THEN transitionTo(m, 2, idleState) ELSE m,
           ret |-> 0 ]
    ELSE IF equalsIgnoreCase(parameter, Str_off)
           THEN [ m |-> IF m.state[2] = STATE_IDLE \/ m.state[2] = STATE_ON
                          THEN transitionTo(m, 2, offState)
                          ELSE m,
                  ret |-> 0 ]
           ELSE [ m |-> m, ret |-> -1 ]

setTarget2(m, parameter) ==
  LET localValue == Deg(atoi(parameter))
  IN  IF localValue >= Deg(0) /\ localValue <= Deg(125)
        THEN [ m |-> saveSettingsInEeprom([ m EXCEPT !.temperatureTarget[2] = localValue ]),
               ret |-> 0 ]
        ELSE [ m |-> m, ret |-> -1 ]

setCalibration2(m, parameter) ==
  LET localValue == Deg(atoi(parameter))
  IN  IF localValue >= Deg(-50) /\ localValue <= Deg(50)
        THEN LET rolledBack == m.temperatureCurrent[2] - m.temperatureCalibration[2]
             IN  [ m |-> saveSettingsInEeprom(
                           [ m EXCEPT !.temperatureCalibration[2] = localValue,
                                      !.temperatureCurrent[2] = rolledBack + localValue ]),
                   ret |-> 0 ]
        ELSE [ m |-> m, ret |-> -1 ]

\* the function of loop l: the cloud calls setOnOff, setTarget and setCalibration
\* or setOnOff2, setTarget2 and setCalibration2 by name, and readTemperature calls
\* getTemp and getTemp2 in turn
setOnOffOf(m, l, parameter) ==
  IF l = 1 THEN setOnOff(m, parameter) ELSE setOnOff2(m, parameter)
setTargetOf(m, l, parameter) ==
  IF l = 1 THEN setTarget(m, parameter) ELSE setTarget2(m, parameter)
setCalibrationOf(m, l, parameter) ==
  IF l = 1 THEN setCalibration(m, parameter) ELSE setCalibration2(m, parameter)
getTempOf(m, l, dev) ==
  IF l = 1 THEN getTemp(m, dev) ELSE getTemp2(m, dev)

(***************************************************************************)
(* Boot: the globals' initial values, then setup()                         *)
(***************************************************************************)
initialRam(ee, relays) ==
  [ state |-> [ l \in Loops |-> STATE_INIT ],
    lastState |-> [ l \in Loops |-> "" ],
    currentState |-> [ l \in Loops |-> initState ],
    nextState |-> [ l \in Loops |-> initState ],
    needToTriggerEnter |-> [ l \in Loops |-> TRUE ],
    timeInCurrentState |-> [ l \in Loops |-> 0 ],
    temperatureCurrent |-> [ l \in Loops |-> INVALID ],
    temperatureTarget |-> [ l \in Loops |-> DefaultTarget(l) ],
    temperatureCalibration |-> [ l \in Loops |-> 0 ],
    relay |-> relays, eeprom |-> ee, relayCalls |-> << >> ]

\* variant: the relays are left as the reset found them
setup_keepsRelays(m) == readFromEeprom(m)

setup(m) == readFromEeprom(turnOffAllRelays(m))

\* the variables take the memory m; the timers are given separately
Commit(m) ==
  /\ state' = m.state
  /\ lastState' = m.lastState
  /\ currentState' = m.currentState
  /\ nextState' = m.nextState
  /\ needToTriggerEnter' = m.needToTriggerEnter
  /\ timeInCurrentState' = m.timeInCurrentState
  /\ temperatureCurrent' = m.temperatureCurrent
  /\ temperatureTarget' = m.temperatureTarget
  /\ temperatureCalibration' = m.temperatureCalibration
  /\ relay' = m.relay
  /\ eeprom' = m.eeprom

(***************************************************************************)
(* Inputs explored                                                         *)
(***************************************************************************)
\* time passes in multiples of the Init timeout, up to MaxAdvance of them at once
MaxAdvance == 1
TimeStep == initTimeout * MILLISECONDS_TO_SECONDS
Deltas == { k * TimeStep : k \in 1 .. MaxAdvance }
\* until the init timeout has run out, the time between two calls of loop() is a
\* quarter of it, so that loop() is called several times within the timeout
InitStep == TimeStep \div 4
DeltasNow ==
  IF \E l \in Loops : /\ currentState[l] = initState
                      /\ timeInCurrentState[l] < initTimeout * MILLISECONDS_TO_SECONDS
    THEN { InitStep }
    ELSE Deltas

\* sensor readings: the pool's default target, and RawSpread margins below and above it
RawSpread == 1
RawTemps == { Deg(30) + k * temperatureMargin : k \in (0 - RawSpread) .. RawSpread }

\* a read whose checksum fails delivers the sensor's power-on value 85
failedRead == [ raw |-> Deg(85), crc |-> FALSE ]
ReadsOkAfter(k, raw) ==
  [ i \in 1 .. 5 |-> IF i <= k THEN failedRead ELSE [ raw |-> raw, crc |-> TRUE ] ]
FailCounts == { 0, 3, 5 }
\* search() answers true: getTemp does not read at all
absentDevice == [ search |-> TRUE, reads |-> ReadsOkAfter(5, Deg(85)) ]
Devices ==
  { [ search |-> FALSE, reads |-> ReadsOkAfter(k, raw) ] : k \in FailCounts, raw \in RawTemps }
    \cup { absentDevice }

\* sensors whose five reads all fail the checksum, whatever value they deliver
GarbageTemps == RawTemps \cup { Deg(85), INVALID }
AllFailDevices ==
  { [ search |-> FALSE, reads |-> [ i \in 1 .. 5 |-> [ raw |-> g, crc |-> FALSE ] ] ] :
      g \in GarbageTemps }

OnOffParams == { Str_on, << "O", "n" >>, Str_off, << "O", "F", "F" >>, << "a", "u", "t", "o" >>, << >> }
TargetParams == { << "3", "0" >>, << "1", "2", "6" >>, << "\t", "3", "0" >> }
CalibrationParams == { << "0" >>, << "1" >>, << "5", "1" >>, << "\n", "1" >> }

(***************************************************************************)
(* Initial state: first boot, with an EEPROM that was never written        *)
(***************************************************************************)
Init ==
  LET m == setup(initialRam(blankEeprom, [ r \in Relays |-> FALSE ]))
  IN  /\ state = m.state
      /\ lastState = m.lastState
      /\ currentState = m.currentState
      /\ nextState = m.nextState
      /\ needToTriggerEnter = m.needToTriggerEnter
      /\ timeInCurrentState = m.timeInCurrentState
      /\ temperatureCurrent = m.temperatureCurrent
      /\ temperatureTarget = m.temperatureTarget
      /\ temperatureCalibration = m.temperatureCalibration
      /\ relay = m.relay
      /\ eeprom = m.eeprom
      /\ quickLoopTimer = 0
      /\ temperatureSampleInterval = 0
      /\ sinceEntered = [ l \in Loops |-> 0 ]
      /\ lastSample = [ l \in Loops |-> "none" ]
      /\ focus \in Loops
      /\ suspended = << >>
      /\ timerOnRelay = [ r \in Relays |-> 0 ]
      /\ turnOffRelayAfterTime = [ r \in Relays |-> 0 ]
      /\ bDHTstarted = FALSE
      /\ momentaryCalls = 0

(***************************************************************************)
(* Actions                                                                 *)
(***************************************************************************)
\* delay(d) serves the cloud: a call that arrives while the program waits in
\* delay(d) is handled inside it, ServedAt(d) milliseconds after the wait began
ServedAt(d) == d \div 2

\* the calls of getTemp, getTemp2 (and, in firmware 0.09, getTempAmb and
\* getTempAmbDHT) that readTemperature() makes, in order; a call that waits is
\* recorded by its name
SensorCalls == << "getTemp", "getTemp2", "getTempAmb", "getTempAmbDHT" >>
SensorCall(at) == CHOOSE k \in 1 .. Len(SensorCalls) : SensorCalls[k] = at
IsSensorCall(at) == \E k \in 1 .. Len(SensorCalls) : SensorCalls[k] = at

\* the call waiting in delay() with `remaining` milliseconds to go; relays are the
\* relays a "momentary" command has still to switch, the first of them being on
Frame(at, remaining, relays) == [ at |-> at, remaining |-> remaining, relays |-> relays ]

\* d milliseconds pass for the calls that wait
FramesAfter(frames, d) ==
  [ i \in 1 .. Len(frames) |-> [ frames[i] EXCEPT !.remaining = Max(@ - d, 0) ] ]

\* d milliseconds pass for the state timers of memory m
Waited(m, d) ==
  [ m EXCEPT !.timeInCurrentState = [ l \in Loops |-> Min(@[l] + d, TimerCap) ] ]

\* the sensor's first three reads fail: the retry loop waits in delay(1000)
NeedsDelay(k, dev) ==
  /\ ~dev.search
  /\ (IF k = 2 THEN retryLoop2(dev.reads, 1, 0) ELSE retryLoop(dev.reads, 1, 0)).delay > 0

\* d milliseconds pass between two calls of loop()
Advance(d) ==
  /\ suspended = << >>
  /\ quickLoopTimer' = Min(quickLoopTimer + d, QUICK_LOOP_INTERVAL)
  /\ temperatureSampleInterval' = Min(temperatureSampleInterval + d, TEMPERATURE_SAMPLE_INTERVAL)
  /\ timeInCurrentState' = [ l \in Loops |-> Min(timeInCurrentState[l] + d, TimerCap) ]
  /\ sinceEntered' = [ l \in Loops |-> Min(sinceEntered[l] + d, TimerCap) ]
  /\ UNCHANGED << state, lastState, currentState, nextState, needToTriggerEnter,
                  temperatureCurrent, temperatureTarget, temperatureCalibration,
                  relay, eeprom, lastSample, focus, suspended, relayVars >>

\* the memory after quickLoop() got past its timer check, and the time it spent in
\* delay(), when no cloud call arrives during the delay
quickLoop(m, sampleDue, dev1, dev2) ==
  LET rt == IF sampleDue THEN readTemperature(m, dev1, dev2)
            ELSE [ m |-> m, delay |-> 0, sample |-> [ l \in Loops |-> "none" ] ]
      waited == Waited(rt.m, rt.delay)
  IN  [ m |-> fsmUpdate(fsmUpdate(waited, 1), 2), delay |-> rt.delay, sample |-> rt.sample ]

SampleDue == temperatureSampleInterval >= TEMPERATURE_SAMPLE_INTERVAL

\* readTemperature() from its k-th sensor call on, up to the next delay() or to its
\* end: the memory so far, the call that waits (0 when none does) and how the
\* samples taken ended. A call that is resumed has its delay() behind it.
RECURSIVE readTemperatureFrom(_, _, _, _, _)
readTemperatureFrom(m, k, resumed, devs, sample) ==
  IF k > Len(devs)
    THEN [ m |-> m, at |-> 0, sample |-> sample ]
  ELSE IF NeedsDelay(k, devs[k]) /\ ~resumed
    THEN [ m |-> m, at |-> k, sample |-> sample ]
  ELSE IF k \in Loops
    THEN LET g == getTempOf(m, k, devs[k])
         IN  readTemperatureFrom(g.m, k + 1, FALSE, devs, [ sample EXCEPT ![k] = g.sample ])
  ELSE readTemperatureFrom(m, k + 1, FALSE, devs, sample)

\* quickLoop() from the k-th sensor call on (past the last one when no sample is
\* due), the memory being m and the timers q, s and e: either it waits in the
\* delay(1000) of a sensor call, and the first ServedAt milliseconds of the delay
\* pass, or it runs to its end through the two state machine updates
RunQuickLoop(m, q, s, e, k, resumed, devs) ==
  \E rt \in { readTemperatureFrom(m, k, resumed, devs, [ l \in Loops |-> "none" ]) } :
    /\ lastSample' =
         [ l \in Loops |-> IF rt.sample[l] = "none" THEN lastSample[l] ELSE rt.sample[l] ]
    /\ UNCHANGED << focus, relayVars >>
    /\ IF rt.at = 0
         THEN \E done \in { fsmUpdate(fsmUpdate(rt.m, 1), 2) } :
                /\ Commit(done)
                /\ quickLoopTimer' = q
                /\ temperatureSampleInterval' = s
                /\ sinceEntered' =
                     [ l \in Loops |-> IF done.currentState[l] # currentState[l] THEN 0
                                       ELSE e[l] ]
                /\ suspended' = << >>
         ELSE LET d == ServedAt(BACKOFF_DELAY)
              IN  /\ Commit(Waited(rt.m, d))
                  /\ quickLoopTimer' = Min(q + d, QUICK_LOOP_INTERVAL)
                  /\ temperatureSampleInterval' = Min(s + d, TEMPERATURE_SAMPLE_INTERVAL)
                  /\ sinceEntered' = [ l \in Loops |-> Min(e[l] + d, TimerCap) ]
                  /\ suspended' = << Frame(SensorCalls[rt.at], BACKOFF_DELAY - d, << >>) >>

\* one call of loop(), up to its end or to the first delay() it waits in; dev1 and
\* dev2 are what the two sensors answer if they are sampled
Loop(dev1, dev2) ==
  /\ suspended = << >>
  /\ IF quickLoopTimer < QUICK_LOOP_INTERVAL
       THEN UNCHANGED vars
       ELSE RunQuickLoop(Mem, 0,
                         IF SampleDue THEN 0 ELSE temperatureSampleInterval,
                         sinceEntered,
                         IF SampleDue THEN 1 ELSE 3, FALSE, << dev1, dev2 >>)

\* the call of loop() that waits in the delay(1000) of a sensor call goes on: the
\* rest of the delay passes, the sensor is read again, and loop() runs to its end or
\* to the delay() of its next sensor call. The sensor calls that are over answer
\* nothing more.
LoopResume(dev1, dev2) ==
  /\ Len(suspended) = 1
  /\ IsSensorCall(suspended[1].at)
  /\ LET k == SensorCall(suspended[1].at)
         d == suspended[1].remaining
         devs == << dev1, dev2 >>
     IN  /\ k <= Len(devs)
         /\ NeedsDelay(k, devs[k])
         /\ \A j \in 1 .. (k - 1) : devs[j] = absentDevice
         /\ RunQuickLoop(Waited(Mem, d),
                         Min(quickLoopTimer + d, QUICK_LOOP_INTERVAL),
                         Min(temperatureSampleInterval + d, TEMPERATURE_SAMPLE_INTERVAL),
                         [ l \in Loops |-> Min(sinceEntered[l] + d, TimerCap) ],
                         k, TRUE, devs)

\* the three cloud functions of a loop; the cloud is served between two calls of
\* loop() and inside every delay()
SetOnOff(l, parameter) ==
  LET r == setOnOffOf(Mem, l, parameter)
  IN  /\ Commit(r.m)
      /\ UNCHANGED << quickLoopTimer, temperatureSampleInterval, sinceEntered, lastSample, focus,
                      suspended, relayVars >>

SetTarget(l, parameter) ==
  LET r == setTargetOf(Mem, l, parameter)
  IN  /\ Commit(r.m)
      /\ UNCHANGED << quickLoopTimer, temperatureSampleInterval, sinceEntered, lastSample, focus,
                      suspended, relayVars >>

SetCalibration(l, parameter) ==
  LET r == setCalibrationOf(Mem, l, parameter)
  IN  /\ Commit(r.m)
      /\ UNCHANGED << quickLoopTimer, temperatureSampleInterval, sinceEntered, lastSample, focus,
                      suspended, relayVars >>

\* power cycle or reset: RAM and timers start over, the EEPROM keeps its content
Reboot ==
  /\ Commit(setup(initialRam(eeprom, relay)))
  /\ quickLoopTimer' = 0
  /\ temperatureSampleInterval' = 0
  /\ sinceEntered' = [ l \in Loops |-> 0 ]
  /\ lastSample' = [ l \in Loops |-> "none" ]
  /\ suspended' = << >>
  /\ UNCHANGED << focus, relayVars >>

\* what the sensor of loop l may answer to this call of loop()
DevicesFor(l) == IF SampleDue /\ l = focus THEN Devices ELSE { absentDevice }
\* what it may answer to the reads that follow a delay()
DelayedDevicesFor(l) == IF l = focus THEN Devices ELSE { absentDevice }

Next ==
  \/ \E d \in DeltasNow : Advance(d)
  \/ \E dev1 \in DevicesFor(1), dev2 \in DevicesFor(2) : Loop(dev1, dev2)
  \/ \E dev1 \in DelayedDevicesFor(1), dev2 \in DelayedDevicesFor(2) : LoopResume(dev1, dev2)
  \/ \E p \in OnOffParams : SetOnOff(focus, p)
  \/ \E p \in TargetParams : SetTarget(focus, p)
  \/ \E p \in CalibrationParams : SetCalibration(focus, p)
  \/ Reboot

Spec == Init /\ [][Next]_vars

(***************************************************************************)
(* The settings commands on their own: targets and calibrations at and     *)
(* beyond the limits of their ranges, for both loops, and reboots.         *)
(***************************************************************************)
SettingTargets ==
  { << "0" >>, << "6", "0" >>, << "1", "2", "5" >>, << "1", "2", "6" >>, << "-", "1" >> }
SettingCalibrations ==
  { << "-", "5", "0" >>, << "0" >>, << "5", "0" >>, << "5", "1" >>, << "-", "5", "1" >> }

NextSettings ==
  \/ \E l \in Loops, p \in SettingTargets : SetTarget(l, p)
  \/ \E l \in Loops, p \in SettingCalibrations : SetCalibration(l, p)
  \/ Reboot

SpecSettings == Init /\ [][NextSettings]_vars

(***************************************************************************)
(* Both loops in use at once: each is switched on and off and each sensor  *)
(* answers with a reading below or above both targets.                     *)
(***************************************************************************)
BothTemps == { Deg(30) - temperatureMargin, Deg(37) + temperatureMargin }
BothDevices == { [ search |-> FALSE, reads |-> ReadsOkAfter(0, raw) ] : raw \in BothTemps }
BothDevicesNow == IF SampleDue THEN BothDevices ELSE { absentDevice }

NextBoth ==
  \/ \E d \in DeltasNow : Advance(d)
  \/ \E dev1 \in BothDevicesNow, dev2 \in BothDevicesNow : Loop(dev1, dev2)
  \/ \E l \in Loops, p \in { Str_on, Str_off } : SetOnOff(l, p)
  \/ Reboot

InitBoth == Init /\ focus = 1

SpecBoth == InitBoth /\ [][NextBoth]_vars

(***************************************************************************)
(* Firmware 0.09 (part_000): the cloud function that switches relays 3 and *)
(* 4, and the automatic switch-off of a relay turned on for some minutes.  *)
(***************************************************************************)
\* the relay timers as one record, beside the memory the two firmwares share
RelayTimers ==
  [ timerOnRelay |-> timerOnRelay, turnOffRelayAfterTime |-> turnOffRelayAfterTime,
    bDHTstarted |-> bDHTstarted ]

\* String::toLowerCase, String::startsWith, String::substring(from)
toLowerCase(s) == [ i \in 1 .. Len(s) |-> toLowerChar(s[i]) ]
startsWith(s, prefix) == Len(s) >= Len(prefix) /\ SubSeq(s, 1, Len(prefix)) = prefix
substring(s, from) == SubSeq(s, from + 1, Len(s))

firstCharIsNumber1to4(string) ==
  \/ startsWith(string, << "1" >>)
  \/ startsWith(string, << "2" >>)
  \/ startsWith(string, << "3" >>)
  \/ startsWith(string, << "4" >>)

\* the four tests of triggerRelay that take a relay number off the front of the
\* command; a test that fails leaves the command as it is, so the later ones fail too
RECURSIVE parseRelayNumbers(_, _, _)
parseRelayNumbers(tempCommand, relayNumbers, left) ==
  IF left > 0 /\ firstCharIsNumber1to4(tempCommand)
    THEN parseRelayNumbers(substring(tempCommand, 1),
                           Append(relayNumbers, digitValue(tempCommand[1])), left - 1)
    ELSE [ tempCommand |-> tempCommand,
           relayNumbers |-> relayNumbers \o [ i \in 1 .. left |-> 0 ] ]

toggleRelay(m, r) ==
  [ m EXCEPT !.relay[r] = ~@, !.relayCalls = Append(@, << "toggle", r >>) ]

MOMENTARY_DELAY == 300

\* int * int on the 32-bit processor. The product of two ints that does not fit an
\* int is undefined in C++; the multiply instruction of the build keeps its low 32
\* bits. A value is held here as two 16-bit halves, so that no step leaves the
\* range of an int.
Halves(n) == [ hi |-> n \div 65536, lo |-> n % 65536 ]
AddHalves(a, b) ==
  [ hi |-> (a.hi + b.hi + ((a.lo + b.lo) \div 65536)) % 65536, lo |-> (a.lo + b.lo) % 65536 ]
RECURSIVE TimesHalves(_, _)
TimesHalves(a, k) ==
  IF k = 0 THEN Halves(0)
  ELSE LET half == TimesHalves(a, k \div 2)
           twice == AddHalves(half, half)
       IN  IF k % 2 = 1 THEN AddHalves(twice, a) ELSE twice
AsInt(a) == IF a.hi >= 32768 THEN (a.hi - 65536) * 65536 + a.lo ELSE a.hi * 65536 + a.lo
IntMin == (0 - 2147483647) - 1
IntNegate(v) == IF v = IntMin THEN v ELSE 0 - v
\* a * b for a non-negative b that fits an int
IntTimes(a, b) ==
  IF a >= 0 THEN AsInt(TimesHalves(Halves(b), a))
  ELSE IntNegate(AsInt(TimesHalves(Halves(b), 0 - a)))

\* variant: the relay's timer is not restarted
turnOnRelayForSomeMinutes_timerKeepsRunning(x, relayNumber, timeOn) ==
  [ x EXCEPT !.m = turnOnRelay(@, relayNumber),
             !.t.turnOffRelayAfterTime[relayNumber] = IntTimes(timeOn, MILLISECONDS_TO_MINUTES) ]

turnOnRelayForSomeMinutes(x, relayNumber, timeOn) ==
  [ x EXCEPT !.m = turnOnRelay(@, relayNumber),
             !.t.timerOnRelay[relayNumber] = 0,
             !.t.turnOffRelayAfterTime[relayNumber] = IntTimes(timeOn, MILLISECONDS_TO_MINUTES) ]

\* variant: relays 1 and 2 are not left out
triggerOneRelay_anyRelay(x, relayNumber, tempCommand, timeOn) ==
  IF relayNumber > 0
    THEN IF equalsIgnoreCase(tempCommand, Str_on)
           THEN LET on == [ x EXCEPT !.m = turnOnRelay(@, relayNumber) ]
                    timed == IF timeOn # 0
                               THEN turnOnRelayForSomeMinutes(on, relayNumber, timeOn)
                               ELSE on
                IN  [ timed EXCEPT !.ret = 1 ]
         ELSE IF equalsIgnoreCase(tempCommand, << "o", "f", "f" >>)
           THEN [ x EXCEPT !.m = turnOffRelay(@, relayNumber), !.ret = 1 ]
         ELSE IF equalsIgnoreCase(tempCommand, << "t", "o", "g", "g", "l", "e" >>)
           THEN [ x EXCEPT !.m = toggleRelay(@, relayNumber), !.ret = 1 ]
         ELSE IF equalsIgnoreCase(tempCommand, << "m", "o", "m", "e", "n", "t", "a", "r", "y" >>)
           THEN [ x EXCEPT !.m = turnOffRelay(turnOnRelay(@, relayNumber), relayNumber),
                           !.t.timerOnRelay =
                             [ r \in Relays |-> @[r] + MOMENTARY_DELAY ],
                           !.delay = @ + MOMENTARY_DELAY,
                           !.ret = 1 ]
         ELSE x
    ELSE x

\* triggerRelay(command) on memory m and relay timers t: the memory and the timers
\* it leaves, its return value and the time it spent in delay()
\* the body of triggerRelay's loop for one entry of relayNumbers
triggerOneRelay(x, relayNumber, tempCommand, timeOn) ==
  IF relayNumber > 2
    THEN IF equalsIgnoreCase(tempCommand, Str_on)
           THEN LET on == [ x EXCEPT !.m = turnOnRelay(@, relayNumber) ]
                    timed == IF timeOn # 0
                               THEN turnOnRelayForSomeMinutes(on, relayNumber, timeOn)
                               ELSE on
                IN  [ timed EXCEPT !.ret = 1 ]
         ELSE IF equalsIgnoreCase(tempCommand, << "o", "f", "f" >>)
           THEN [ x EXCEPT !.m = turnOffRelay(@, relayNumber), !.ret = 1 ]
         ELSE IF equalsIgnoreCase(tempCommand, << "t", "o", "g", "g", "l", "e" >>)
           THEN [ x EXCEPT !.m = toggleRelay(@, relayNumber), !.ret = 1 ]
         ELSE IF equalsIgnoreCase(tempCommand, << "m", "o", "m", "e", "n", "t", "a", "r", "y" >>)
           THEN [ x EXCEPT !.m = turnOffRelay(turnOnRelay(@, relayNumber), relayNumber),
                           !.t.timerOnRelay =
                             [ r \in Relays |-> @[r] + MOMENTARY_DELAY ],
                           !.delay = @ + MOMENTARY_DELAY,
                           !.ret = 1 ]
         ELSE x
    ELSE x

\* triggerRelay(command) on memory m and relay timers t: the memory and the timers
\* it leaves, its return value and the time it spent in delay()
\* (the intermediate values are bound as set elements so that each is computed once)
triggerRelay(m, t, command) ==
  CHOOSE x4 \in
    { LET isOn == startsWith(parsed.tempCommand, Str_on)
          timeOn == IF isOn THEN atoi(substring(parsed.tempCommand, 2)) ELSE 0
          tempCommand == IF isOn THEN Str_on ELSE parsed.tempCommand
          x0 == [ m |-> m, t |-> t, ret |-> 0, delay |-> 0 ]
      IN  CHOOSE y4 \in
            { triggerOneRelay(x3, parsed.relayNumbers[4], tempCommand, timeOn) :
                x3 \in { triggerOneRelay(x2, parsed.relayNumbers[3], tempCommand, timeOn) :
                  x2 \in { triggerOneRelay(x1, parsed.relayNumbers[2], tempCommand, timeOn) :
                    x1 \in { triggerOneRelay(x0, parsed.relayNumbers[1], tempCommand, timeOn) } } } } :
            TRUE :
        parsed \in { parseRelayNumbers(toLowerCase(command), << >>, 4) } } : TRUE

\* elapsedMillis > int: the int is converted to unsigned long, so a negative one
\* becomes a value of 2^31 or more, which no timer kept here exceeds
elapsedExceeds(timer, after) == after >= 0 /\ timer > after

\* variant: the deadline stays armed
sweepOneRelay_keepsDeadline(x, r) ==
  IF /\ x.t.turnOffRelayAfterTime[r] # 0
     /\ elapsedExceeds(x.t.timerOnRelay[r], x.t.turnOffRelayAfterTime[r])
    THEN [ x EXCEPT !.m = turnOffRelay(@, r) ]
    ELSE x

\* turnOffRelay() without argument: the check of one relay for automatic switch-off
sweepOneRelay(x, r) ==
  IF /\ x.t.turnOffRelayAfterTime[r] # 0
     /\ elapsedExceeds(x.t.timerOnRelay[r], x.t.turnOffRelayAfterTime[r])
    THEN [ x EXCEPT !.t.turnOffRelayAfterTime[r] = 0, !.m = turnOffRelay(@, r) ]
    ELSE x

\* turnOffRelay() without argument: relays 1 to 4 in turn
turnOffRelaySweep(m, t) ==
  sweepOneRelay(sweepOneRelay(sweepOneRelay(sweepOneRelay([ m |-> m, t |-> t ], 1), 2), 3), 4)

\* the time in minutes that the timed commands of this model keep a relay on
MaxMinutes == 1
\* time passes in half minutes while relays are commanded, and a relay timer is kept
\* up to the first value that is past every deadline
RelayStep == MILLISECONDS_TO_MINUTES \div 2
RelayTimerCap == MaxMinutes * MILLISECONDS_TO_MINUTES + RelayStep

capTimers(t) ==
  [ t EXCEPT !.timerOnRelay = [ r \in Relays |-> Min(@[r], RelayTimerCap) ] ]

\* getTempAmb() of firmware 0.09: the ambient sensor is read with the retry loop of
\* getTemp; its reading goes to temperatureCurrent3, which is published and takes
\* no part in the control, so of the call only the time spent in delay() is kept
getTempAmb(m, dev) ==
  IF dev.search
    THEN [ m |-> m, delay |-> 0 ]
    ELSE [ m |-> m, delay |-> retryLoop(dev.reads, 1, 0).delay ]

\* DHT.acquireAndWait(5): the longest that getTempAmbDHT waits for the DHT sensor
DHT_TIMEOUT == 5

\* what the DHT sensor does in a call of getTempAmbDHT: how long an acquisition that
\* the call starts keeps it waiting, and whether an acquisition is still under way
\* when the call asks DHT.acquiring(). An acquisition that is still under way has
\* kept the call waiting for the whole timeout.
Acquisition(wait, acquiring) == [ wait |-> wait, acquiring |-> acquiring ]
Acquisitions ==
  { Acquisition(0, FALSE), Acquisition(DHT_TIMEOUT, FALSE), Acquisition(DHT_TIMEOUT, TRUE) }

\* getTempAmbDHT() of firmware 0.09: an acquisition is started and waited for unless
\* one is under way; while it is still under way the call returns and bDHTstarted
\* stays set, else bDHTstarted is cleared, whether the reading is taken or thrown
\* away. The readings go to temperatureCurrent4 and humidityCurrent4, which are
\* published and take no part in the control, so of the call only the flag and the
\* time spent waiting are kept.
getTempAmbDHT(t, dht) ==
  [ t |-> [ t EXCEPT !.bDHTstarted = dht.acquiring ],
    delay |-> IF t.bDHTstarted THEN 0 ELSE dht.wait ]

\* readTemperature() of firmware 0.09: getTemp, getTemp2, getTempAmb, getTempAmbDHT
readTemperatureWithAmbient(m, t, dev1, dev2, dev3, dht) ==
  LET rt == readTemperature(m, dev1, dev2)
      g3 == getTempAmb(rt.m, dev3)
      g4 == getTempAmbDHT(t, dht)
  IN  [ m |-> g3.m, t |-> g4.t, delay |-> rt.delay + g3.delay + g4.delay,
        sample |-> rt.sample ]

\* d milliseconds pass for the relay timers
TimersAfter(t, d) == [ t EXCEPT !.timerOnRelay = [ r \in Relays |-> @[r] + d ] ]

\* quickLoop() of firmware 0.09 once past its timer check, when no cloud call
\* arrives during a wait: the sample, the two state machine updates as in 0.06,
\* then the check for relays to switch off
quickLoopWithSweep(m, t, sampleDue, dev1, dev2, dev3, dht) ==
  LET rt == IF sampleDue THEN readTemperatureWithAmbient(m, t, dev1, dev2, dev3, dht)
            ELSE [ m |-> m, t |-> t, delay |-> 0, sample |-> [ l \in Loops |-> "none" ] ]
      updated == fsmUpdate(fsmUpdate(Waited(rt.m, rt.delay), 1), 2)
      swept == turnOffRelaySweep(updated, TimersAfter(rt.t, rt.delay))
  IN  [ m |-> swept.m, t |-> capTimers(swept.t), delay |-> rt.delay, sample |-> rt.sample ]

CommitTimers(t) ==
  /\ timerOnRelay' = t.timerOnRelay
  /\ turnOffRelayAfterTime' = t.turnOffRelayAfterTime
  /\ bDHTstarted' = t.bDHTstarted

\* d milliseconds pass between two calls of loop()
AdvanceWithRelays(d) ==
  /\ suspended = << >>
  /\ quickLoopTimer' = Min(quickLoopTimer + d, QUICK_LOOP_INTERVAL)
  /\ temperatureSampleInterval' = Min(temperatureSampleInterval + d, TEMPERATURE_SAMPLE_INTERVAL)
  /\ timeInCurrentState' = [ l \in Loops |-> Min(timeInCurrentState[l] + d, TimerCap) ]
  /\ sinceEntered' = [ l \in Loops |-> Min(sinceEntered[l] + d, TimerCap) ]
  /\ timerOnRelay' = [ r \in Relays |-> Min(timerOnRelay[r] + d, RelayTimerCap) ]
  /\ UNCHANGED << state, lastState, currentState, nextState, needToTriggerEnter,
                  temperatureCurrent, temperatureTarget, temperatureCalibration,
                  relay, eeprom, lastSample, focus, suspended, turnOffRelayAfterTime,
                  bDHTstarted, momentaryCalls >>

\* the wait that quickLoop() of firmware 0.09 begins: its first ServedAt
\* milliseconds pass and the call waits for the rest
WaitInSensorCall(m, t, q, s, e, k, wait) ==
  LET d == ServedAt(wait)
  IN  /\ Commit(Waited(m, d))
      /\ CommitTimers(capTimers(TimersAfter(t, d)))
      /\ quickLoopTimer' = Min(q + d, QUICK_LOOP_INTERVAL)
      /\ temperatureSampleInterval' = Min(s + d, TEMPERATURE_SAMPLE_INTERVAL)
      /\ sinceEntered' = [ l \in Loops |-> Min(e[l] + d, TimerCap) ]
      /\ suspended' = << Frame(SensorCalls[k], wait - d, << >>) >>

\* quickLoop() of firmware 0.09 from the k-th sensor call on (past the last one when
\* no sample is due), the memory being m, the relay timers t and the other timers
\* q, s and e: either it waits in the delay(1000) of a sensor call or in the
\* DHT.acquireAndWait(5) of getTempAmbDHT, or it runs to its end through the two
\* state machine updates and the check for relays to switch off
RunQuickLoopWithSweep(m, t, q, s, e, k, resumed, devs, dht) ==
  \E rt \in { readTemperatureFrom(m, k, resumed, devs, [ l \in Loops |-> "none" ]) } :
    /\ lastSample' =
         [ l \in Loops |-> IF rt.sample[l] = "none" THEN lastSample[l] ELSE rt.sample[l] ]
    /\ UNCHANGED << focus, momentaryCalls >>
    /\ IF rt.at # 0
         THEN WaitInSensorCall(rt.m, t, q, s, e, rt.at, BACKOFF_DELAY)
       ELSE IF /\ k <= Len(SensorCalls)
               /\ ~(k = Len(SensorCalls) /\ resumed)
               /\ getTempAmbDHT(t, dht).delay > 0
         THEN WaitInSensorCall(rt.m, t, q, s, e, Len(SensorCalls), getTempAmbDHT(t, dht).delay)
       ELSE \E swept \in { turnOffRelaySweep(fsmUpdate(fsmUpdate(rt.m, 1), 2),
                                             IF k <= Len(SensorCalls)
                                               THEN getTempAmbDHT(t, dht).t ELSE t) } :
              /\ Commit(swept.m)
              /\ CommitTimers(capTimers(swept.t))
              /\ quickLoopTimer' = q
              /\ temperatureSampleInterval' = s
              /\ sinceEntered' =
                   [ l \in Loops |-> IF swept.m.currentState[l] # currentState[l] THEN 0
                                     ELSE e[l] ]
              /\ suspended' = << >>

\* one call of loop() of firmware 0.09, up to its end or to the first wait it
\* makes; dev3 is what the ambient sensor answers and dht what the DHT sensor does
LoopWithSweep(dev1, dev2, dev3, dht) ==
  /\ suspended = << >>
  /\ IF quickLoopTimer < QUICK_LOOP_INTERVAL
       THEN UNCHANGED vars
       ELSE RunQuickLoopWithSweep(Mem, RelayTimers, 0,
                                  IF SampleDue THEN 0 ELSE temperatureSampleInterval,
                                  sinceEntered,
                                  IF SampleDue THEN 1 ELSE Len(SensorCalls) + 1, FALSE,
                                  << dev1, dev2, dev3 >>, dht)

\* the call of loop() that waits in a sensor call goes on: the rest of the wait
\* passes, and the call runs to its end or to its next wait
LoopWithSweepResume(dev1, dev2, dev3, dht) ==
  /\ Len(suspended) = 1
  /\ IsSensorCall(suspended[1].at)
  /\ LET k == SensorCall(suspended[1].at)
         d == suspended[1].remaining
         devs == << dev1, dev2, dev3 >>
     IN  /\ IF k <= Len(devs) THEN NeedsDelay(k, devs[k]) ELSE dht.wait = DHT_TIMEOUT
         /\ \A j \in 1 .. Min(k - 1, Len(devs)) : devs[j] = absentDevice
         /\ RunQuickLoopWithSweep(Waited(Mem, d),
                                  TimersAfter(RelayTimers, d),
                                  Min(quickLoopTimer + d, QUICK_LOOP_INTERVAL),
                                  Min(temperatureSampleInterval + d, TEMPERATURE_SAMPLE_INTERVAL),
                                  [ l \in Loops |-> Min(sinceEntered[l] + d, TimerCap) ],
                                  k, TRUE, devs, dht)

\* the relays that a "momentary" command switches on and, 300 ms later, off: the
\* relays above 2 among the four it may name, in the order it names them
momentaryRelays(command) ==
  LET parsed == parseRelayNumbers(toLowerCase(command), << >>, 4)
      above2(n) == n > 2
  IN  IF equalsIgnoreCase(parsed.tempCommand,
                          << "m", "o", "m", "e", "n", "t", "a", "r", "y" >>)
        THEN SelectSeq(parsed.relayNumbers, above2)
        ELSE << >>

\* the cloud function controlRelay, up to its end or, for a "momentary" command, to
\* the delay(300) that follows the switching on of the first relay it names
TriggerRelay(command) ==
  IF momentaryRelays(command) = << >>
    THEN \E r \in { triggerRelay(Mem, RelayTimers, command) } :
           /\ Commit(r.m)
           /\ CommitTimers(capTimers(r.t))
           /\ UNCHANGED << quickLoopTimer, temperatureSampleInterval, sinceEntered,
                           lastSample, focus, suspended, momentaryCalls >>
    ELSE LET d == ServedAt(MOMENTARY_DELAY)
             relays == momentaryRelays(command)
         IN  /\ momentaryCalls' = momentaryCalls + 1
             /\ Commit(Waited(turnOnRelay(Mem, Head(relays)), d))
             /\ CommitTimers(capTimers(TimersAfter(RelayTimers, d)))
             /\ quickLoopTimer' = Min(quickLoopTimer + d, QUICK_LOOP_INTERVAL)
             /\ temperatureSampleInterval' =
                  Min(temperatureSampleInterval + d, TEMPERATURE_SAMPLE_INTERVAL)
             /\ sinceEntered' = [ l \in Loops |-> Min(sinceEntered[l] + d, TimerCap) ]
             /\ suspended' = Append(FramesAfter(suspended, d),
                                    Frame("triggerRelay", MOMENTARY_DELAY - d, relays))
             /\ UNCHANGED << lastSample, focus >>

\* the "momentary" command that waits in delay(300) goes on: the rest of the delay
\* passes and the relay is switched off; the next relay it names is switched on and
\* the command waits again, or it returns
TriggerRelayResume ==
  /\ suspended # << >>
  /\ LET top == suspended[Len(suspended)]
         below == SubSeq(suspended, 1, Len(suspended) - 1)
         rest == Tail(top.relays)
         off == turnOffRelay(Waited(Mem, top.remaining), Head(top.relays))
         t == TimersAfter(RelayTimers, top.remaining)
         d == IF rest = << >> THEN 0 ELSE ServedAt(MOMENTARY_DELAY)
     IN  /\ top.at = "triggerRelay"
         /\ Commit(IF rest = << >> THEN off ELSE Waited(turnOnRelay(off, Head(rest)), d))
         /\ CommitTimers(capTimers(TimersAfter(t, d)))
         /\ quickLoopTimer' = Min(quickLoopTimer + top.remaining + d, QUICK_LOOP_INTERVAL)
         /\ temperatureSampleInterval' =
              Min(temperatureSampleInterval + top.remaining + d, TEMPERATURE_SAMPLE_INTERVAL)
         /\ sinceEntered' =
              [ l \in Loops |-> Min(sinceEntered[l] + top.remaining + d, TimerCap) ]
         /\ suspended' =
              IF rest = << >> THEN FramesAfter(below, top.remaining)
              ELSE Append(FramesAfter(below, top.remaining + d),
                          Frame("triggerRelay", MOMENTARY_DELAY - d, rest))
         /\ UNCHANGED << lastSample, focus, momentaryCalls >>

\* power cycle or reset of firmware 0.09: the relay timers and deadlines start over too
RebootWithRelays ==
  /\ Commit(setup(initialRam(eeprom, relay)))
  /\ quickLoopTimer' = 0
  /\ temperatureSampleInterval' = 0
  /\ sinceEntered' = [ l \in Loops |-> 0 ]
  /\ lastSample' = [ l \in Loops |-> "none" ]
  /\ suspended' = << >>
  /\ timerOnRelay' = [ r \in Relays |-> 0 ]
  /\ turnOffRelayAfterTime' = [ r \in Relays |-> 0 ]
  /\ bDHTstarted' = FALSE
  /\ momentaryCalls' = 0
  /\ UNCHANGED focus

\* relay commands: relays 3 and 4 on for some minutes, alone and with a reserved
\* relay named too; untimed commands; the reserved relays alone; and no command at all
TimedOn(relays) == { relays \o Str_on \o DigitsOf(MaxMinutes) }
RelayCommands ==
  TimedOn(<< "3", "4" >>) \cup TimedOn(<< "1", "3" >>)
    \cup { << "4" >> \o Str_on, << "3" >> \o Str_off,
           << "4", "t", "o", "g", "g", "l", "e" >>,
           << "1", "2" >> \o Str_on, << "r", "e", "l", "a", "y" >> }

\* both sensors answer with a reading that makes a loop heat; the ambient sensor
\* answers at once
ColdDevice == [ search |-> FALSE, reads |-> ReadsOkAfter(0, Deg(30) - temperatureMargin) ]
RelayDevicesNow == IF SampleDue THEN { ColdDevice } ELSE { absentDevice }
AmbientDevice == [ search |-> FALSE, reads |-> ReadsOkAfter(0, Deg(30)) ]
AmbientDeviceNow == IF SampleDue THEN { AmbientDevice } ELSE { absentDevice }
\* what the DHT sensor may do in this call of loop(), and after a wait for it
AcquisitionsNow == IF SampleDue THEN Acquisitions ELSE { Acquisition(0, FALSE) }
AcquisitionsWaitedFor == { dht \in Acquisitions : dht.wait = DHT_TIMEOUT }

NextRelays ==
  \/ AdvanceWithRelays(RelayStep)
  \/ \E dev1 \in RelayDevicesNow, dev2 \in RelayDevicesNow, dev3 \in AmbientDeviceNow,
        dht \in AcquisitionsNow :
       LoopWithSweep(dev1, dev2, dev3, dht)
  \/ \E dht \in AcquisitionsWaitedFor :
       LoopWithSweepResume(absentDevice, absentDevice, absentDevice, dht)
  \/ \E c \in RelayCommands : TriggerRelay(c)
  \/ \E p \in { Str_on, Str_off } : SetOnOff(focus, p)
  \/ RebootWithRelays

SpecRelays == Init /\ [][NextRelays]_vars

(***************************************************************************)
(* Firmware 0.09 with calls that wait in delay(): the ambient sensor may    *)
(* fail three reads, so that loop() waits a second before the state         *)
(* machines and the check for relays to switch off, beside the wait for the *)
(* DHT sensor, and a "momentary" command waits 300 ms for each relay it     *)
(* names. Timed commands are served between two calls of loop() and inside  *)
(* these waits.                                                             *)
(***************************************************************************)
AmbientDevices ==
  { [ search |-> FALSE, reads |-> ReadsOkAfter(k, Deg(30)) ] : k \in { 0, 3 } }
AmbientDevicesNow == IF SampleDue THEN AmbientDevices ELSE { absentDevice }
\* the DHT sensor ends every acquisition within the timeout, at once or at its end
AcquisitionsEnded == { dht \in Acquisitions : ~dht.acquiring }
AcquisitionsEndedNow == AcquisitionsNow \cap AcquisitionsEnded

\* how many calls wait at once, one inside the other, and how many "momentary"
\* commands are given between two boots, in the runs that are explored
MaxSuspended == 2
MaxMomentary == 1
MomentaryCommands == { << "3", "4", "m", "o", "m", "e", "n", "t", "a", "r", "y" >> }
DelayCommands == TimedOn(<< "3", "4" >>) \cup TimedOn(<< "3" >>) \cup MomentaryCommands
DelayCommandsNow ==
  IF momentaryCalls < MaxMomentary /\ Len(suspended) < MaxSuspended
    THEN DelayCommands
    ELSE DelayCommands \ MomentaryCommands

NextRelayDelays ==
  \/ AdvanceWithRelays(RelayStep)
  \/ \E dev1 \in RelayDevicesNow, dev2 \in RelayDevicesNow, dev3 \in AmbientDevicesNow,
        dht \in AcquisitionsEndedNow :
       LoopWithSweep(dev1, dev2, dev3, dht)
  \/ \E dev3 \in AmbientDevices \cup { absentDevice }, dht \in AcquisitionsEnded :
       LoopWithSweepResume(absentDevice, absentDevice, dev3, dht)
  \/ \E c \in DelayCommandsNow : TriggerRelay(c)
  \/ TriggerRelayResume
  \/ RebootWithRelays

SpecRelayDelays == InitBoth /\ [][NextRelayDelays]_vars

(***************************************************************************)
(* Properties                                                              *)
(***************************************************************************)
Dwell == minimumTimeInState * MILLISECONDS_TO_MINUTES

\* this step is the end of a call of loop() that got past the quick-loop timer
\* check, the step that updates the state machines: either a call that begins, so
\* that it restarts the quick-loop timer or the sample timer, or a call that waited
\* in the delay() of a sensor call; it leaves no call waiting and both state machines
\* past their first update (a reboot leaves them before it)
IsTick ==
  /\ \/ /\ suspended = << >>
        /\ quickLoopTimer >= QUICK_LOOP_INTERVAL
        /\ \/ quickLoopTimer' < quickLoopTimer
           \/ temperatureSampleInterval' < temperatureSampleInterval
     \/ /\ Len(suspended) = 1
        /\ IsSensorCall(suspended[1].at)
  /\ suspended' = << >>
  /\ \A l \in Loops : ~needToTriggerEnter'[l]

\* this step is a reboot of a loop that had made its first update: its state machine
\* is constructed anew
RebootOf(l) == ~needToTriggerEnter[l] /\ needToTriggerEnter'[l]

\* the FSM of loop l holds a request to go from state a to state b
Pending(cur, nxt, l, a, b) == cur[l] = a /\ nxt[l] = b

\* this step makes the request a -> b for loop l
Requests(l, a, b) ==
  /\ Pending(currentState', nextState', l, a, b)
  /\ ~Pending(currentState, nextState, l, a, b)

RECURSIVE CountCalls(_, _)
CountCalls(log, call) ==
  IF log = << >> THEN 0
  ELSE (IF Head(log) = call THEN 1 ELSE 0) + CountCalls(Tail(log), call)

\* C1: a loop asks for Idle -> On, and makes that change, only once it has been
\* in Idle for the minimum dwell of one minute, however it entered Idle.
C1_IdleToOnOnlyAfterDwell ==
  [][ \A l \in Loops :
        /\ Requests(l, idleState, onState) => sinceEntered'[l] >= Dwell
        /\ (currentState[l] = idleState /\ currentState'[l] = onState)
             => sinceEntered[l] >= Dwell ]_vars

C1_Witness ==
  \E l \in Loops : currentState[l] = onState /\ state[l] = STATE_ON /\ relay[RelayOf(l)]

\* C2 as stated: a loop goes from On to Idle only once it has been in On for the
\* minimum dwell and with a valid current temperature of at least target + margin,
\* the temperature being the one the tick that makes the change works with.
C2_OnToIdleOnlyAfterDwellAndAboveTarget ==
  [][ \A l \in Loops :
        (currentState[l] = onState /\ currentState'[l] = idleState)
          => /\ sinceEntered[l] >= Dwell
             /\ temperatureCurrent'[l] # INVALID
             /\ temperatureCurrent'[l] >= temperatureTarget'[l] + temperatureMargin ]_vars

\* C2, amended: a loop asks for On -> Idle only once it has been in On for the
\* minimum dwell and its valid current temperature is at least target + margin; the
\* change from On to Idle is made only past the dwell and only to carry out such a
\* request, which the loop held before the tick that makes the change.
C2_OnToIdleRequestedOnlyAfterDwellAndAboveTarget ==
  [][ \A l \in Loops :
        /\ Requests(l, onState, idleState)
             => /\ sinceEntered'[l] >= Dwell
                /\ temperatureCurrent'[l] # INVALID
                /\ temperatureCurrent'[l] >= temperatureTarget'[l] + temperatureMargin
        /\ (currentState[l] = onState /\ currentState'[l] = idleState)
             => /\ sinceEntered[l] >= Dwell
                /\ Pending(currentState, nextState, l, onState, idleState) ]_vars

C2_Witness ==
  \E l \in Loops : Pending(currentState, nextState, l, onState, idleState)

\* C3: whenever a loop leaves On for Idle or Off, its relay is off afterwards and
\* the tick that made the change called turnOffRelay for that relay exactly once.
C3_ExitFromOnTurnsRelayOffOnce ==
  [][ \A l \in Loops :
        (currentState[l] = onState /\ currentState'[l] \in { idleState, offState })
          => /\ ~relay'[RelayOf(l)]
             /\ \A dev1 \in DevicesFor(1), dev2 \in DevicesFor(2) :
                  LET q == quickLoop(Mem, SampleDue, dev1, dev2).m
                  IN  q.currentState[l] # onState
                        => /\ CountCalls(q.relayCalls, << "off", RelayOf(l) >>) = 1
                           /\ CountCalls(q.relayCalls, << "on", RelayOf(l) >>) = 0 ]_vars

C3_Witness ==
  \E l \in Loops :
    /\ currentState[l] = onState
    /\ nextState[l] \in { idleState, offState }
    /\ relay[RelayOf(l)]
    /\ quickLoopTimer >= QUICK_LOOP_INTERVAL

\* the original reading of C4: while the latest sample of a loop is one that failed
\* all its retries, the loop makes no temperature-dependent request.
C4_NoTemperatureTransitionAfterFailedSample ==
  [][ \A l \in Loops :
        lastSample'[l] = "failed"
          => /\ ~Requests(l, idleState, onState)
             /\ ~Requests(l, onState, idleState) ]_vars

\* C4 (as the code has it): a tick whose latest sample failed all its retries leaves
\* the current temperature at its previous value, and the loop goes on deciding on
\* that retained value: past the dwell it requests Idle -> On when the value is
\* <= target - margin and On -> Idle when it is >= target + margin. The
\* temperature-dependent requests are skipped only while the value is INVALID.
C4_FailedSampleKeepsValueAndControlUsesIt ==
  [][ \A l \in Loops :
        /\ (Requests(l, idleState, onState) \/ Requests(l, onState, idleState))
             => temperatureCurrent'[l] # INVALID
        /\ (IsTick /\ lastSample'[l] = "failed")
             => /\ temperatureCurrent'[l] = temperatureCurrent[l]
                /\ ( /\ ~needToTriggerEnter[l]
                     /\ Pending(currentState, nextState, l, idleState, idleState)
                     /\ timeInCurrentState[l] >= Dwell
                     /\ temperatureCurrent[l] # INVALID
                     /\ temperatureCurrent[l] <= temperatureTarget[l] - temperatureMargin )
                     => Pending(currentState', nextState', l, idleState, onState)
                /\ ( /\ ~needToTriggerEnter[l]
                     /\ Pending(currentState, nextState, l, onState, onState)
                     /\ timeInCurrentState[l] >= Dwell
                     /\ temperatureCurrent[l] # INVALID
                     /\ temperatureCurrent[l] >= temperatureTarget[l] + temperatureMargin )
                     => Pending(currentState', nextState', l, onState, idleState) ]_vars

\* the request Idle -> On was made by a tick whose latest sample had failed
C4_Witness ==
  \E l \in Loops :
    /\ lastSample[l] = "failed"
    /\ Pending(currentState, nextState, l, idleState, onState)
    /\ temperatureCurrent[l] # INVALID

\* C5: a sample in which every read fails its checksum leaves the current temperature
\* (and the rest of the memory) as it was, INVALID included; getTemp changes the
\* value only when the last read passed its checksum, and then to that reading plus
\* the calibration.
C5_AllFailSampleKeepsTemperature ==
  \A l \in Loops :
    /\ \A dev \in AllFailDevices :
         LET g == getTempOf(Mem, l, dev)
         IN  g.sample = "failed" /\ g.m = Mem
    /\ \A dev \in Devices :
         LET g == getTempOf(Mem, l, dev)
         IN  g.m.temperatureCurrent[l] # temperatureCurrent[l]
               => /\ dev.reads[g.reads].crc
                  /\ g.m.temperatureCurrent[l] = dev.reads[g.reads].raw + temperatureCalibration[l]

\* the latest sample failed all its reads and the loop still holds a sensor reading
C5_Witness ==
  \E l \in Loops :
    /\ lastSample[l] = "failed"
    /\ temperatureCurrent[l] \in { raw + temperatureCalibration[l] : raw \in RawTemps }

\* the FSM state initUpdateFunction resumes into, given the last state read from the EEPROM
ResumeState(l) == IF lastState[l] = STATE_IDLE THEN idleState ELSE offState

\* C6: a reboot of a loop whose status is Idle or On reloads "Idle" as its last state,
\* and one whose status is Off reloads "Off"; while the loop is in Init nothing
\* changes whether that value is Idle; the loop leaves Init only after the 10 s timeout and then into
\* Idle when the reloaded value is Idle and into Off otherwise, never into On; and a
\* tick past the timeout does ask for that state.
C6_ResumeAfterReboot ==
  [][ \A l \in Loops :
        /\ (RebootOf(l) /\ state[l] \in { STATE_IDLE, STATE_ON })
             => currentState'[l] = initState /\ lastState'[l] = STATE_IDLE
        /\ (RebootOf(l) /\ state[l] = STATE_OFF)
             => currentState'[l] = initState /\ lastState'[l] = STATE_OFF
        /\ (currentState[l] = initState /\ currentState'[l] = initState)
             => (lastState'[l] = STATE_IDLE <=> lastState[l] = STATE_IDLE)
        /\ (currentState[l] = initState /\ currentState'[l] # initState)
             => /\ sinceEntered[l] >= initTimeout * MILLISECONDS_TO_SECONDS
                /\ currentState'[l] = ResumeState(l)
        /\ ( /\ IsTick
             /\ currentState[l] = initState
             /\ ~needToTriggerEnter[l]
             /\ timeInCurrentState[l] >= initTimeout * MILLISECONDS_TO_SECONDS )
             => nextState'[l] = ResumeState(l) ]_vars

\* a rebooted loop that was on is about to leave Init for Idle
C6_Witness ==
  \E l \in Loops :
    /\ Pending(currentState, nextState, l, initState, idleState)
    /\ lastState[l] = STATE_IDLE
    /\ eeprom.version = EEPROM_VERSION

\* the spellings of "on" and "off"
OnForms == { << a, b >> : a \in { "o", "O" }, b \in { "n", "N" } }
OffForms == { << a, b, c >> : a \in { "o", "O" }, b \in { "f", "F" }, c \in { "f", "F" } }
OtherParameters ==
  { << >>, << "o" >>, << "o", "f" >>, << "o", "n", "n" >>, << " ", "o", "n" >>,
    << "0" >>, << "1" >>, << "a", "u", "t", "o" >>, << "o", "f", "f", " " >> }

\* C7: setOnOff "off" called in status Idle or On asks for the off state, whatever the
\* time in the current state and whatever request is pending; the request stays
\* until the next tick; and that tick leaves the loop in Off with its relay off.
C7_OffTakesEffectOnNextTick ==
  [][ \A l \in Loops :
        /\ state[l] \in { STATE_IDLE, STATE_ON }
             => \A p \in { Str_off, << "O", "F", "F" >> } :
                  LET r == setOnOffOf(Mem, l, p)
                  IN  /\ r.m.nextState[l] = offState
                      /\ r.m.currentState[l] \in { idleState, onState }
        /\ (currentState[l] \in { idleState, onState } /\ nextState[l] = offState)
             => IF IsTick
                  THEN /\ Pending(currentState', nextState', l, offState, offState)
                       /\ state'[l] = STATE_OFF
                       /\ ~relay'[RelayOf(l)]
                  ELSE RebootOf(l) \/ Pending(currentState', nextState', l, currentState[l], offState)
      ]_vars

\* "off" was asked for before the loop had been in On for the minimum time
C7_Witness ==
  \E l \in Loops :
    /\ Pending(currentState, nextState, l, onState, offState)
    /\ relay[RelayOf(l)]
    /\ sinceEntered[l] < Dwell

\* C8: setOnOff with a spelling of "on" returns 0 and asks for Idle when the status is
\* Off, and otherwise changes nothing; with a spelling of "off" it returns 0 and asks
\* for Off when the status is Idle or On, and otherwise changes nothing; with any
\* other parameter it returns -1 and changes nothing.
C8_SetOnOffContract ==
  \A l \in Loops :
    /\ \A p \in OnForms :
         LET r == setOnOffOf(Mem, l, p)
         IN  /\ r.ret = 0
             /\ r.m = IF state[l] = STATE_OFF
                        THEN [ Mem EXCEPT !.nextState[l] = idleState,
                                          !.timeInCurrentState[l] = 0 ]
                        ELSE Mem
    /\ \A p \in OffForms :
         LET r == setOnOffOf(Mem, l, p)
         IN  /\ r.ret = 0
             /\ r.m = IF state[l] \in { STATE_IDLE, STATE_ON }
                        THEN [ Mem EXCEPT !.nextState[l] = offState,
                                          !.timeInCurrentState[l] = 0 ]
                        ELSE Mem
    /\ \A p \in OtherParameters :
         LET r == setOnOffOf(Mem, l, p)
         IN  r.ret = -1 /\ r.m = Mem

\* "on" was accepted in status Off
C8_Witness ==
  \E l \in Loops :
    /\ Pending(currentState, nextState, l, offState, idleState)
    /\ state[l] = STATE_OFF

StatusOf(s) ==
  CASE s = initState -> STATE_INIT
    [] s = offState -> STATE_OFF
    [] s = idleState -> STATE_IDLE
    [] s = onState -> STATE_ON

AllowedTransitions ==
  { << initState, offState >>, << initState, idleState >>, << offState, idleState >>,
    << idleState, onState >>, << idleState, offState >>,
    << onState, idleState >>, << onState, offState >> }

\* C9: each loop is in one of the four states, and its status names that state; a
\* step changes the state of a loop only along Init->Off, Init->Idle, Off->Idle,
\* Idle->On, Idle->Off, On->Idle, On->Off, or by a reboot, which puts it in Init.
C9_OnlyAllowedTransitions ==
  [][ \A l \in Loops :
        /\ currentState[l] \in FsmStates
        /\ state[l] = (IF needToTriggerEnter[l] THEN STATE_INIT ELSE StatusOf(currentState[l]))
        /\ currentState'[l] # currentState[l]
             => \/ << currentState[l], currentState'[l] >> \in AllowedTransitions
                \/ RebootOf(l) /\ currentState'[l] = initState ]_vars

\* one loop is heating while the other is off
C9_Witness ==
  \E l, k \in Loops :
    /\ currentState[l] = onState /\ state[l] = STATE_ON
    /\ currentState[k] = offState /\ state[k] = STATE_OFF

\* C10: a tick of a loop that is in Off with no request pending leaves its state,
\* its status, its last state and its relay as they were; the loop leaves Off only
\* into Idle; and the request to leave is made only by setOnOff with "on" (a reboot
\* restarts the loop in Init).
C10_OffOnlyLeftBySetOnOff ==
  [][ \A l \in Loops :
        /\ (Pending(currentState, nextState, l, offState, offState) /\ IsTick)
             => /\ Pending(currentState', nextState', l, offState, offState)
                /\ state'[l] = state[l]
                /\ lastState'[l] = lastState[l]
                /\ relay'[RelayOf(l)] = relay[RelayOf(l)]
        /\ (currentState[l] = offState /\ currentState'[l] # offState)
             => \/ currentState'[l] = idleState /\ nextState[l] = idleState
                \/ RebootOf(l)
        /\ ( /\ Pending(currentState, nextState, l, offState, offState)
             /\ nextState'[l] # offState )
             => \/ /\ nextState'[l] = idleState
                   /\ \E p \in OnForms : SetOnOff(l, p)
                \/ RebootOf(l) ]_vars

\* the loop is off although its temperature calls for heat and the dwell has passed
C10_Witness ==
  \E l \in Loops :
    /\ Pending(currentState, nextState, l, offState, offState)
    /\ temperatureCurrent[l] # INVALID
    /\ temperatureCurrent[l] <= temperatureTarget[l] - temperatureMargin
    /\ timeInCurrentState[l] >= Dwell
    /\ ~relay[RelayOf(l)]

\* C11: a tick of a loop that is in Init with less than the 10 s timeout elapsed
\* leaves it in Init with no request made; and while a loop is in Init no relay is on.
C11_InitWaitsForTimeout ==
  [][ \A l \in Loops :
        /\ ( /\ IsTick
             /\ Pending(currentState, nextState, l, initState, initState)
             /\ timeInCurrentState[l] < initTimeout * MILLISECONDS_TO_SECONDS )
             => Pending(currentState', nextState', l, initState, initState)
        /\ currentState[l] = initState => \A r \in Relays : ~relay[r]
        /\ currentState'[l] = initState => \A r \in Relays : ~relay'[r] ]_vars

\* a tick is due for a loop that has entered Init and is still inside the timeout
C11_Witness ==
  \E l \in Loops :
    /\ currentState[l] = initState
    /\ ~needToTriggerEnter[l]
    /\ timeInCurrentState[l] > 0
    /\ timeInCurrentState[l] < initTimeout * MILLISECONDS_TO_SECONDS
    /\ quickLoopTimer >= QUICK_LOOP_INTERVAL

\* C12: the current temperature of a loop changes only in a tick whose sample of
\* that loop was validated (or by a reboot, which sets it back to INVALID); so it
\* stays INVALID from boot until the first validated sample.
C12_TemperatureChangedOnlyBySensor ==
  [][ \A l \in Loops :
        temperatureCurrent'[l] # temperatureCurrent[l]
          => \/ IsTick /\ lastSample'[l] = "ok"
             \/ needToTriggerEnter'[l] /\ temperatureCurrent'[l] = INVALID ]_vars

\* the fields of loop l in an EEPROM record
EepromTarget(ee, l) == IF l = 1 THEN ee.temperatureTarget ELSE ee.temperatureTarget2
EepromCalibration(ee, l) ==
  IF l = 1 THEN ee.temperatureCalibration ELSE ee.temperatureCalibration2
EepromLastState(ee, l) == IF l = 1 THEN ee.lastState ELSE ee.lastState2

\* C13: for every integer T in 0..125 setTarget returns 0, leaves the loop's target
\* at T and the EEPROM record, with the current version, holding T for that loop;
\* for every integer C in -50..50 setCalibration does the same for the calibration.
C13_SetTargetAndCalibrationAcceptRange ==
  \A l \in Loops :
    /\ \A T \in 0 .. 125 :
         LET r == setTargetOf(Mem, l, IntToParam(T))
         IN  /\ r.ret = 0
             /\ r.m.temperatureTarget[l] = Deg(T)
             /\ r.m.eeprom.version = EEPROM_VERSION
             /\ EepromTarget(r.m.eeprom, l) = Deg(T)
    /\ \A C \in -50 .. 50 :
         LET r == setCalibrationOf(Mem, l, IntToParam(C))
         IN  /\ r.ret = 0
             /\ r.m.temperatureCalibration[l] = Deg(C)
             /\ r.m.eeprom.version = EEPROM_VERSION
             /\ EepromCalibration(r.m.eeprom, l) = Deg(C)

\* both limits have been set and stored
C13_Witness ==
  \E l \in Loops :
    /\ temperatureTarget[l] = Deg(125)
    /\ temperatureCalibration[l] = Deg(-50)
    /\ eeprom.version = EEPROM_VERSION
    /\ EepromTarget(eeprom, l) = Deg(125)
    /\ EepromCalibration(eeprom, l) = Deg(-50)

\* values next to and far from the limits of the two ranges: integers, and values
\* with a decimal part that lie just outside a limit
OutOfRangeTargets == { -1000, -50, -1, 126, 200, 1000 }
OutOfRangeCalibrations == { -1000, -125, -51, 51, 125, 1000 }
OutOfRangeTargetParams ==
  { IntToParam(T) : T \in OutOfRangeTargets }
    \cup { << "1", "2", "5", ".", "5" >>, << "-", "0", ".", "5" >> }
OutOfRangeCalibrationParams ==
  { IntToParam(C) : C \in OutOfRangeCalibrations }
    \cup { << "5", "0", ".", "9" >>, << "-", "5", "0", ".", "5" >> }

\* C14: setTarget with a value outside [0, 125] and setCalibration with a value
\* outside [-50, 50] return -1 and leave the whole memory as it was: targets,
\* calibrations, current temperatures, FSM states, relays and the EEPROM record.
C14_OutOfRangeRejected ==
  \A l \in Loops :
    /\ \A p \in OutOfRangeTargetParams :
         LET r == setTargetOf(Mem, l, p)
         IN  r.ret = -1 /\ r.m = Mem
    /\ \A p \in OutOfRangeCalibrationParams :
         LET r == setCalibrationOf(Mem, l, p)
         IN  r.ret = -1 /\ r.m = Mem

\* C14, the part that holds: an integer outside the range is rejected with -1 and
\* leaves the whole memory as it was.
C14_IntegersOutOfRangeRejected ==
  \A l \in Loops :
    /\ \A T \in OutOfRangeTargets :
         LET r == setTargetOf(Mem, l, IntToParam(T))
         IN  r.ret = -1 /\ r.m = Mem
    /\ \A C \in OutOfRangeCalibrations :
         LET r == setCalibrationOf(Mem, l, IntToParam(C))
         IN  r.ret = -1 /\ r.m = Mem

\* C14, what the code does with 125.5 and 50.9: atoi keeps 125 and 50, the call
\* returns 0 and the limit is set and stored.
C14_DecimalsTruncatedAndAccepted ==
  \A l \in Loops :
    /\ LET r == setTargetOf(Mem, l, << "1", "2", "5", ".", "5" >>)
       IN  /\ r.ret = 0
           /\ r.m.temperatureTarget[l] = Deg(125)
           /\ EepromTarget(r.m.eeprom, l) = Deg(125)
    /\ LET r == setCalibrationOf(Mem, l, << "5", "0", ".", "9" >>)
       IN  /\ r.ret = 0
           /\ r.m.temperatureCalibration[l] = Deg(50)
           /\ EepromCalibration(r.m.eeprom, l) = Deg(50)

\* white space before the number of a setting: atoi skips it, so the value is
\* stored when it is in range and refused when it is not
WhiteSpaceBeforeSettingSkipped ==
  \A l \in Loops : \A ws \in { << w >> : w \in WhiteSpaceChars } \cup { << " ", "\t" >> } :
    /\ \A a \in { setTargetOf(Mem, l, ws \o << "4", "2" >>) } :
         \A b \in { setTargetOf(Mem, l, << "4", "2" >>) } :
           a = b /\ a.ret = 0 /\ a.m.temperatureTarget[l] = Deg(42)
    /\ \A a \in { setTargetOf(Mem, l, ws \o << "-", "7" >>) } :
         a.ret = -1 /\ a.m = Mem
    /\ \A a \in { setCalibrationOf(Mem, l, ws \o << "-", "7" >>) } :
         \A b \in { setCalibrationOf(Mem, l, << "-", "7" >>) } :
           a = b /\ a.ret = 0 /\ a.m.temperatureCalibration[l] = Deg(-7)
    /\ \A a \in { setCalibrationOf(Mem, l, ws \o << "1", "2", "6" >>) } :
         a.ret = -1 /\ a.m = Mem

CalibrationProbes == { -50, -7, 0, 1, 50 }

\* C15: setCalibration with an integer C in range returns 0 and leaves the memory as
\* it was except that the loop's current temperature is its old value minus the old
\* calibration plus C, its calibration is C, and the EEPROM record holds the
\* settings as they now are; no sample is needed for the new offset to apply.
C15_SetCalibrationAppliesImmediately ==
  \A l \in Loops : \A C \in CalibrationProbes :
    LET r == setCalibrationOf(Mem, l, IntToParam(C))
    IN  /\ r.ret = 0
        /\ r.m = [ Mem EXCEPT
                     !.temperatureCurrent[l] =
                        temperatureCurrent[l] - temperatureCalibration[l] + Deg(C),
                     !.temperatureCalibration[l] = Deg(C),
                     !.eeprom = r.m.eeprom ]
        /\ r.m.eeprom.version = EEPROM_VERSION
        /\ \A k \in Loops :
             /\ EepromCalibration(r.m.eeprom, k) = r.m.temperatureCalibration[k]
             /\ EepromTarget(r.m.eeprom, k) = r.m.temperatureTarget[k]

\* a loop holds a sensor reading shifted by a calibration that is set and stored
C15_Witness ==
  \E l \in Loops :
    /\ lastSample[l] = "ok"
    /\ temperatureCalibration[l] = Deg(1)
    /\ temperatureCurrent[l] \in { raw + Deg(1) : raw \in RawTemps }
    /\ EepromCalibration(eeprom, l) = Deg(1)

\* C16: the step that enters Off leaves lastState = Off in RAM and 0 in the EEPROM
\* record; the step that enters Idle or On leaves lastState = the state entered in
\* RAM and 1 ("was on") in the EEPROM record; the step that enters Init (the first
\* update after boot) leaves lastState as it was loaded, in RAM and, where a record
\* had been written, in the EEPROM.
C16_LastStatePersistedOnEntry ==
  [][ \A l \in Loops :
        /\ (currentState'[l] # currentState[l] /\ currentState'[l] = offState)
             => /\ lastState'[l] = STATE_OFF
                /\ eeprom'.version = EEPROM_VERSION
                /\ EepromLastState(eeprom', l) = 0
        /\ (currentState'[l] # currentState[l] /\ currentState'[l] \in { idleState, onState })
             => /\ lastState'[l] = StatusOf(currentState'[l])
                /\ eeprom'.version = EEPROM_VERSION
                /\ EepromLastState(eeprom', l) = 1
        /\ (needToTriggerEnter[l] /\ ~needToTriggerEnter'[l])
             => /\ state'[l] = STATE_INIT
                /\ lastState'[l] = lastState[l]
                /\ eeprom'.version = EEPROM_VERSION
                /\ eeprom.version = EEPROM_VERSION
                     => EepromLastState(eeprom', l) = EepromLastState(eeprom, l) ]_vars

\* a loop that was on has entered Init after a reboot and still has "was on" stored
C16_Witness ==
  \E l \in Loops :
    /\ currentState[l] = initState
    /\ ~needToTriggerEnter[l]
    /\ lastState[l] = STATE_IDLE
    /\ EepromLastState(eeprom, l) = 1

TargetProbes == { 0, 37, 125 }

\* the RAM after saveSettingsInEeprom on memory m and then a reboot
SavedAndReloaded(m) ==
  LET saved == saveSettingsInEeprom(m)
  IN  setup(initialRam(saved.eeprom, saved.relay))

\* C17: for targets in 0..125, calibrations in -50..50 and last states Off or Idle,
\* in any combination over the two loops, saveSettingsInEeprom followed by the
\* reload of a reboot gives back the same targets, calibrations and last states;
\* and the same holds of the settings of every state reached, a last state On
\* coming back as Idle.
C17_SaveThenReadRoundTrip ==
  /\ \A t1, t2 \in TargetProbes : \A c1, c2 \in CalibrationProbes :
       \A s1, s2 \in { STATE_OFF, STATE_IDLE } :
         LET m0 == [ Mem EXCEPT !.temperatureTarget = << Deg(t1), Deg(t2) >>,
                                !.temperatureCalibration = << Deg(c1), Deg(c2) >>,
                                !.lastState = << s1, s2 >> ]
             m1 == SavedAndReloaded(m0)
         IN  /\ m1.temperatureTarget = m0.temperatureTarget
             /\ m1.temperatureCalibration = m0.temperatureCalibration
             /\ m1.lastState = m0.lastState
  /\ LET m1 == SavedAndReloaded(Mem)
     IN  \A l \in Loops :
           /\ m1.temperatureTarget[l] = temperatureTarget[l]
           /\ m1.temperatureCalibration[l] = temperatureCalibration[l]
           /\ m1.lastState[l] = convertIntToLastState(convertLastStateToInt(lastState[l]))

\* a reboot has reloaded settings that differ between the loops
C17_Witness ==
  /\ eeprom.version = EEPROM_VERSION
  /\ \A l \in Loops : lastState[l] = STATE_OFF
  /\ temperatureTarget[1] = Deg(125) /\ temperatureTarget[2] = Deg(0)
  /\ temperatureCalibration[1] = Deg(-50) /\ temperatureCalibration[2] = Deg(50)

\* version bytes other than the current one: blank, and the neighbours of EEPROM_VERSION
OtherVersions == { 0, EEPROM_VERSION - 1, EEPROM_VERSION + 1, BLANK_BYTE }

\* C18: a boot that finds any other version byte in the EEPROM, whatever the rest
\* of the record holds, leaves the last states unset, the targets at 30 and 37, the
\* calibrations at 0 and the record as it was; and a loop booted that way (its last
\* state still unset) is asked to leave Init for Off and leaves it only for Off.
C18_VersionMismatchKeepsDefaults ==
  [][ /\ \A v \in OtherVersions :
           LET ee == [ eeprom EXCEPT !.version = v ]
               m1 == setup(initialRam(ee, relay))
           IN  /\ m1.lastState = << "", "" >>
               /\ m1.eeprom = ee
               /\ m1.temperatureTarget = << Deg(30), Deg(37) >>
               /\ m1.temperatureCalibration = << 0, 0 >>
               /\ m1.temperatureCurrent = << INVALID, INVALID >>
      /\ \A l \in Loops :
           /\ (currentState[l] = initState /\ lastState[l] = "" /\ currentState'[l] # initState)
                => currentState'[l] = offState
           /\ ( /\ IsTick
                /\ currentState[l] = initState
                /\ lastState[l] = ""
                /\ ~needToTriggerEnter[l]
                /\ timeInCurrentState[l] >= initTimeout * MILLISECONDS_TO_SECONDS )
                => nextState'[l] = offState ]_vars

\* a loop booted from a blank EEPROM is about to leave Init for Off
C18_Witness ==
  \E l \in Loops :
    /\ Pending(currentState, nextState, l, initState, offState)
    /\ lastState[l] = ""
    /\ temperatureTarget[l] = DefaultTarget(l)
    /\ temperatureCalibration[l] = 0

\* what the operations addressed to loop l lead to from this state (its three set
\* functions, a sample of its sensor, an update of its state machine): the memory
\* and the time the operation took, which is the time a sample spends in delay()
\* and which passes for the state timers of both loops
OperationsOn(l) ==
  { [ m |-> setTargetOf(Mem, l, IntToParam(T)).m, delay |-> 0 ] : T \in { 0, 125, 126 } }
    \cup { [ m |-> setCalibrationOf(Mem, l, IntToParam(C)).m, delay |-> 0 ] : C \in { -50, 1, 51 } }
    \cup { [ m |-> setOnOffOf(Mem, l, p).m, delay |-> 0 ] : p \in { Str_on, Str_off } }
    \cup { [ m |-> Waited(g.m, g.delay), delay |-> g.delay ] :
             g \in { getTempOf(Mem, l, dev) : dev \in Devices \cup BothDevices } }
    \cup { [ m |-> fsmUpdate(Mem, l), delay |-> 0 ] }

\* memory x.m has the RAM of loop k and its relay as they are in this state, the
\* time x.delay having passed for its state timer
SameLoop(k, x) ==
  LET m == x.m IN
  /\ m.temperatureTarget[k] = temperatureTarget[k]
  /\ m.temperatureCalibration[k] = temperatureCalibration[k]
  /\ m.temperatureCurrent[k] = temperatureCurrent[k]
  /\ m.currentState[k] = currentState[k]
  /\ m.nextState[k] = nextState[k]
  /\ m.needToTriggerEnter[k] = needToTriggerEnter[k]
  /\ m.timeInCurrentState[k] = Min(timeInCurrentState[k] + x.delay, TimerCap)
  /\ m.state[k] = state[k]
  /\ m.lastState[k] = lastState[k]
  /\ m.relay[RelayOf(k)] = relay[RelayOf(k)]

\* the EEPROM record of memory m has the fields of loop k as they are in this state
SameStored(k, m) ==
  /\ EepromLastState(m.eeprom, k) = EepromLastState(eeprom, k)
  /\ EepromTarget(m.eeprom, k) = EepromTarget(eeprom, k)
  /\ EepromCalibration(m.eeprom, k) = EepromCalibration(eeprom, k)

\* the original reading of C19: no operation addressed to one loop changes the other
\* loop's RAM, relay or fields of the EEPROM record.
C19_OtherLoopAndItsStoredFieldsUntouched ==
  \A l, k \in Loops :
    l # k => \A x \in OperationsOn(l) : SameLoop(k, x) /\ SameStored(k, x.m)

\* C19 (as the code has it): no operation addressed to one loop changes the other
\* loop's target, calibration, current temperature, FSM state or relay, nor, once
\* the program has written the EEPROM record, the other loop's fields in it. (The
\* first write to a blank EEPROM stores the whole record, and so fills the other
\* loop's fields with that loop's values in RAM.)
C19_OtherLoopUntouched ==
  \A l, k \in Loops :
    l # k => \A x \in OperationsOn(l) :
               /\ SameLoop(k, x)
               /\ eeprom.version = EEPROM_VERSION => SameStored(k, x.m)

\* both loops are heating, and one of them is about to leave the on state
C19_Witness ==
  \E l, k \in Loops :
    /\ l # k
    /\ currentState[l] = onState /\ nextState[l] # onState /\ relay[RelayOf(l)]
    /\ currentState[k] = onState /\ relay[RelayOf(k)]

\* temperature t is valid and strictly inside the dead band around target g
InDeadBand(t, g) ==
  /\ t # INVALID
  /\ t > g - temperatureMargin
  /\ t < g + temperatureMargin

\* the original reading of C20: a tick of a loop that is in Idle or On and whose
\* current temperature is inside the dead band before and after the tick leaves the
\* loop in the state it was in.
C20_NoStateChangeInDeadBand ==
  [][ \A l \in Loops :
        ( /\ IsTick
          /\ currentState[l] \in { idleState, onState }
          /\ InDeadBand(temperatureCurrent[l], temperatureTarget[l])
          /\ InDeadBand(temperatureCurrent'[l], temperatureTarget'[l]) )
          => currentState'[l] = currentState[l] ]_vars

\* C20 (as the code has it): a tick of a loop that is in Idle or On with no request
\* pending, and whose current temperature after the tick's sample is inside the dead
\* band, makes no request and leaves the loop in its state, however long the loop
\* has been there. (A request that is already pending - setOnOff "off", or one made
\* by an earlier tick on an earlier reading or target - is still carried out.)
C20_NoRequestInDeadBand ==
  [][ \A l \in Loops : \A s \in { idleState, onState } :
        ( /\ IsTick
          /\ Pending(currentState, nextState, l, s, s)
          /\ InDeadBand(temperatureCurrent'[l], temperatureTarget'[l]) )
          => Pending(currentState', nextState', l, s, s) ]_vars

\* a tick is due for a loop that has been heating for the minimum time and whose
\* temperature is at the target
C20_Witness ==
  \E l \in Loops :
    /\ Pending(currentState, nextState, l, onState, onState)
    /\ timeInCurrentState[l] >= Dwell
    /\ temperatureCurrent[l] = temperatureTarget[l]
    /\ quickLoopTimer >= QUICK_LOOP_INTERVAL
    /\ ~SampleDue

\* memory m has both targets and both calibrations inside their ranges, in RAM and,
\* where the EEPROM holds a record of the current version, in that record
SettingsInRange(m) ==
  \A l \in Loops :
    /\ m.temperatureTarget[l] >= Deg(0)
    /\ m.temperatureTarget[l] <= Deg(125)
    /\ m.temperatureCalibration[l] >= Deg(-50)
    /\ m.temperatureCalibration[l] <= Deg(50)
    /\ m.eeprom.version = EEPROM_VERSION =>
         /\ EepromTarget(m.eeprom, l) >= Deg(0)
         /\ EepromTarget(m.eeprom, l) <= Deg(125)
         /\ EepromCalibration(m.eeprom, l) >= Deg(-50)
         /\ EepromCalibration(m.eeprom, l) <= Deg(50)

\* integers at and next to the limits of the two ranges
LimitTargets == { -1, 0, 125, 126 }
LimitCalibrations == { -51, -50, 50, 51 }

\* C21: in every reachable state each loop's target is in 0..125 and its calibration
\* in -50..50, in RAM and in the EEPROM record once the program has written it; and
\* from every reachable state a set command with a value at, inside or outside the
\* limits, and a reboot, lead to such a state again.
C21_SettingsStayInRange ==
  /\ SettingsInRange(Mem)
  /\ SettingsInRange(setup(initialRam(eeprom, relay)))
  /\ \A l \in Loops :
       /\ \A T \in LimitTargets :
            SettingsInRange(setTargetOf(Mem, l, IntToParam(T)).m)
       /\ \A C \in LimitCalibrations :
            SettingsInRange(setCalibrationOf(Mem, l, IntToParam(C)).m)

\* a loop that has left Init runs on a changed target and a changed calibration,
\* both stored
C21_Witness ==
  \E l \in Loops :
    /\ currentState[l] \in { idleState, onState }
    /\ temperatureTarget[l] # DefaultTarget(l)
    /\ temperatureCalibration[l] # 0
    /\ eeprom.version = EEPROM_VERSION
    /\ EepromTarget(eeprom, l) = temperatureTarget[l]
    /\ EepromCalibration(eeprom, l) = temperatureCalibration[l]

\* the relays that firmware 0.09 leaves to the cloud function
AuxRelays == { r \in Relays : r > 2 }

\* timed "on" commands with the auxiliary relays they name and their minutes
TimedOnProbes ==
  { [ command |-> << "3", "4" >> \o Str_on \o << "5" >>, relays |-> { 3, 4 }, minutes |-> 5 ],
    [ command |-> << "3" >> \o Str_on \o << "1" >>, relays |-> { 3 }, minutes |-> 1 ],
    [ command |-> << "4", "O", "N", "1", "2" >>, relays |-> { 4 }, minutes |-> 12 ],
    [ command |-> << "4", "3" >> \o Str_on \o << "2" >>, relays |-> { 3, 4 }, minutes |-> 2 ],
    [ command |-> << "1", "4" >> \o Str_on \o << "3" >>, relays |-> { 4 }, minutes |-> 3 ] }

\* white space before the minutes of a timed command: toInt skips it, so the relay
\* is armed as by the command without it
WhiteSpaceBeforeMinutesSkipped ==
  \A w \in WhiteSpaceChars :
    /\ \A a \in { triggerRelay(Mem, RelayTimers, << "3" >> \o Str_on \o << w, "5" >>) } :
         /\ a = triggerRelay(Mem, RelayTimers, << "3" >> \o Str_on \o << "5" >>)
         /\ a.ret = 1 /\ a.m.relay[3]
         /\ a.t.turnOffRelayAfterTime[3] = 5 * MILLISECONDS_TO_MINUTES
    /\ \A a \in { triggerRelay(Mem, RelayTimers, << "3", "4" >> \o Str_on \o << " ", w, "1" >>) } :
         \A k \in AuxRelays :
           a.m.relay[k] /\ a.t.turnOffRelayAfterTime[k] = MILLISECONDS_TO_MINUTES

\* C22: in every state, a command "<digits>on<m>" with m > 0 is accepted and leaves
\* every auxiliary relay it names on, with its timer restarted and its deadline at m
\* minutes; and a tick leaves an auxiliary relay that is on and armed on and armed
\* as long as its timer has not passed the deadline, and switches it off, with no
\* command, once the timer has passed it.
C22_TimedOnThenAutomaticOff ==
  [][ /\ \A c \in TimedOnProbes :
           \A r \in { triggerRelay(Mem, RelayTimers, c.command) } :
               /\ r.ret = 1
               /\ \A k \in c.relays :
                    /\ r.m.relay[k]
                    /\ r.t.timerOnRelay[k] = 0
                    /\ r.t.turnOffRelayAfterTime[k] = c.minutes * MILLISECONDS_TO_MINUTES
      /\ \A k \in AuxRelays :
           (IsTick /\ relay[k] /\ turnOffRelayAfterTime[k] > 0) =>
             IF timerOnRelay'[k] > turnOffRelayAfterTime[k]
               THEN ~relay'[k]
               ELSE relay'[k] /\ turnOffRelayAfterTime'[k] = turnOffRelayAfterTime[k] ]_vars

\* relays 3 and 4 were turned on for a minute, the minute has passed and a tick is due
C22_Witness ==
  /\ \A k \in AuxRelays :
       /\ relay[k]
       /\ turnOffRelayAfterTime[k] = MILLISECONDS_TO_MINUTES
       /\ timerOnRelay[k] > turnOffRelayAfterTime[k]
  /\ quickLoopTimer >= QUICK_LOOP_INTERVAL

\* the relays that belong to the two control loops
ReservedRelays == { RelayOf(l) : l \in Loops }

\* command strings: relay digits in several orders, none, or out of range, followed
\* by each verb, by a timed "on" and by "on" in capitals
ProbeDigits ==
  { << >>, << "1" >>, << "2" >>, << "1", "2" >>, << "2", "1" >>, << "1", "3" >>,
    << "4", "2" >>, << "1", "2", "3", "4" >>, << "3" >> }
ProbeVerbs ==
  { Str_on, Str_off, << "t", "o", "g", "g", "l", "e" >>,
    << "m", "o", "m", "e", "n", "t", "a", "r", "y" >>, Str_on \o << "5" >>, << "O", "N" >> }
ProbeCommands == { d \o v : d \in ProbeDigits, v \in ProbeVerbs }
ReservedOnly == { << "1" >>, << "2" >>, << "1", "2" >>, << "2", "1" >> }

\* C23: in every state no deadline is armed for relay 1 or 2, and triggerRelay with
\* any command leaves relay 1, relay 2 and their deadlines as they were; a command
\* that names only relays 1 and 2 returns 0 and changes nothing at all.
C23_ReservedRelaysUntouched ==
  /\ \A k \in ReservedRelays : turnOffRelayAfterTime[k] = 0
  /\ \A c \in ProbeCommands :
       \A r \in { triggerRelay(Mem, RelayTimers, c) } :
           \A k \in ReservedRelays :
             /\ r.m.relay[k] = relay[k]
             /\ r.t.turnOffRelayAfterTime[k] = 0
  /\ \A d \in ReservedOnly, v \in ProbeVerbs :
       \A r \in { triggerRelay(Mem, RelayTimers, d \o v) } :
           r.ret = 0 /\ r.m = Mem /\ r.t = RelayTimers

\* loop 1 is heating through relay 1, loop 2 is not, and relays 3 and 4 are in use
C23_Witness ==
  /\ relay[1] /\ currentState[1] = onState
  /\ ~relay[2]
  /\ relay[3] /\ relay[4]
  /\ turnOffRelayAfterTime[3] > 0
  /\ triggerRelay(Mem, RelayTimers, << "1" >> \o Str_on).ret = 0

\* strings that are not <relay digits 1-4><on|off|toggle|momentary>[<minutes>]: no
\* digits, a digit that is no relay, no verb, a misspelt verb, a blank inside, and
\* "on" followed by something that is no number of minutes
MalformedCommands ==
  { << >>, Str_on, << "r", "e", "l", "a", "y" >>, << "3" >>,
    << "5" >> \o Str_on, << "0" >> \o Str_on, << "3", " " >> \o Str_on,
    << "3", "o", "f" >>, << "3" >> \o Str_off \o << "f" >>,
    << "3" >> \o Str_on \o << "x" >>, << "4" >> \o Str_on \o << "-", "5" >> }

\* C24: triggerRelay with a string that has not the form of a command returns 0 and
\* leaves every relay, every relay timer and every deadline as it was.
C24_MalformedCommandRejected ==
  \A c \in MalformedCommands :
    \A r \in { triggerRelay(Mem, RelayTimers, c) } :
      r.ret = 0 /\ r.m.relay = relay /\ r.t = RelayTimers

\* relay r is armed and its timer has passed the deadline
DeadlinePassed(timers, r) ==
  /\ timers.turnOffRelayAfterTime[r] > 0
  /\ timers.timerOnRelay[r] > timers.turnOffRelayAfterTime[r]

\* C25: in every state turnOffRelay() switches off exactly the relays that are armed
\* and whose timer has passed the deadline, and disarms them, and leaves every other
\* relay and deadline as it was; and every tick does so for relays 3 and 4, so that
\* an armed relay is off and disarmed after the first tick that finds the deadline
\* passed.
C25_SweepTurnsOffOnlyElapsedRelays ==
  [][ /\ \A s \in { turnOffRelaySweep(Mem, RelayTimers) } : \A r \in Relays :
           IF DeadlinePassed(RelayTimers, r)
             THEN ~s.m.relay[r] /\ s.t.turnOffRelayAfterTime[r] = 0
             ELSE /\ s.m.relay[r] = relay[r]
                  /\ s.t.turnOffRelayAfterTime[r] = turnOffRelayAfterTime[r]
      /\ IsTick => \A r \in AuxRelays :
           IF /\ turnOffRelayAfterTime[r] > 0
              /\ timerOnRelay'[r] > turnOffRelayAfterTime[r]
             THEN ~relay'[r] /\ turnOffRelayAfterTime'[r] = 0
             ELSE /\ relay'[r] = relay[r]
                  /\ turnOffRelayAfterTime'[r] = turnOffRelayAfterTime[r] ]_vars

\* a tick is due while relay 4 is on past its deadline and relay 3 is on with a
\* deadline that has not passed
C25_Witness ==
  /\ relay[4] /\ DeadlinePassed(RelayTimers, 4)
  /\ relay[3] /\ turnOffRelayAfterTime[3] > 0 /\ ~DeadlinePassed(RelayTimers, 3)
  /\ quickLoopTimer >= QUICK_LOOP_INTERVAL

\* sensors that would answer eight reads: the first k fail the checksum, for
\* k up to eight (a sensor that never answers right)
LongAnswers == 8
LongDevices ==
  { [ search |-> FALSE,
      reads |-> [ i \in 1 .. LongAnswers |->
                    IF i <= k THEN failedRead ELSE [ raw |-> Deg(30), crc |-> TRUE ] ] ] :
      k \in 0 .. LongAnswers }

\* the original reading of C26: a sample makes at most 4 read attempts.
C26_AtMostFourReads ==
  \A l \in Loops, dev \in LongDevices : getTempOf(Mem, l, dev).reads <= 4

\* C26 (as the code has it): whatever the device answers, a sample ends after at
\* most 5 reads, the first one and up to 4 retries, having waited at most once for
\* one second; a device whose first k reads fail is read k + 1 times for k < 4 and
\* 5 times from there on.
C26_AtMostFiveReads ==
  \A l \in Loops, dev \in LongDevices :
    \A g \in { getTempOf(Mem, l, dev) } :
      /\ g.reads <= 5
      /\ g.delay <= BACKOFF_DELAY
      /\ \A k \in 0 .. LongAnswers :
           (/\ \A i \in 1 .. k : ~dev.reads[i].crc
            /\ k < LongAnswers => dev.reads[k + 1].crc) =>
             g.reads = Min(k + 1, 5)

\* the latest sample of a loop failed, and a sensor that never answers right would
\* be read five times again
C26_Witness ==
  \E l \in Loops :
    /\ lastSample[l] = "failed"
    /\ temperatureCurrent[l] # INVALID
    /\ \E dev \in LongDevices :
         /\ \A i \in 1 .. LongAnswers : ~dev.reads[i].crc
         /\ getTempOf(Mem, l, dev).reads = 5

\* sensors of LongDevices that never pass the checksum
NeverRight == { dev \in LongDevices : \A i \in 1 .. LongAnswers : ~dev.reads[i].crc }

\* the original reading of C27: in a sample whose reads keep failing there is one
\* backoff and the read that follows it is the last read of the sample.
C27_BackoffBeforeFinalRetry ==
  \A l \in Loops, dev \in NeverRight :
    \A r \in { retryLoop(dev.reads, 1, 0) } :
      /\ getTempOf(Mem, l, dev).delay = BACKOFF_DELAY
      /\ Len(r.backoffs) = 1
      /\ r.backoffs[1] = r.last

\* C27 (as the code has it): in a sample whose reads keep failing there is exactly one
\* backoff of one second; it comes before the third of the four retries, that is
\* before the fourth read, and one more read follows. A sample with fewer than three
\* failed reads has no backoff, one with three or more has exactly that one.
C27_OneBackoffBeforeThirdRetry ==
  /\ \A dev \in NeverRight :
       \A r \in { retryLoop(dev.reads, 1, 0) } :
         /\ r.backoffs = << 4 >>
         /\ r.delay = BACKOFF_DELAY
         /\ r.last = 5
  /\ \A l \in Loops, dev \in LongDevices :
       \A r \in { retryLoop(dev.reads, 1, 0) } :
         /\ r.backoffs = IF r.last >= 4 THEN << 4 >> ELSE << >>
         /\ getTempOf(Mem, l, dev).delay = Len(r.backoffs) * BACKOFF_DELAY

\* the sample that has just been taken failed and spent one backoff
C27_Witness ==
  \E l \in Loops :
    /\ lastSample[l] = "failed"
    /\ temperatureSampleInterval = BACKOFF_DELAY
    /\ quickLoopTimer = QUICK_LOOP_INTERVAL

\* this step is a tick that finds loop l settled in On past the minimum dwell, with
\* a valid temperature of at least target + margin once the tick's sample is taken
HotTickAfterDwell(l) ==
  /\ IsTick
  /\ Pending(currentState, nextState, l, onState, onState)
  /\ timeInCurrentState[l] >= Dwell
  /\ temperatureCurrent'[l] # INVALID
  /\ temperatureCurrent'[l] >= temperatureTarget[l] + temperatureMargin

\* the original reading of C28: the first tick after the minimum dwell that finds the
\* temperature at or above target + margin leaves the loop in Idle with its relay off.
C28_IdleAtFirstTickAfterDwell ==
  [][ \A l \in Loops :
        HotTickAfterDwell(l) => currentState'[l] = idleState /\ ~relay'[RelayOf(l)] ]_vars

\* C28 (as the code has it): the first tick after the minimum dwell that finds the
\* temperature at or above target + margin asks for Idle, the loop still being in On
\* with its relay on; and the tick that finds this request pending carries it out:
\* the loop is in Idle and its relay is off after it. So with ticks continuing the
\* loop is in Idle no later than the second tick after the dwell has elapsed.
C28_IdleAtSecondTickAfterDwell ==
  [][ \A l \in Loops :
        /\ HotTickAfterDwell(l) =>
             /\ Pending(currentState', nextState', l, onState, idleState)
             /\ relay'[RelayOf(l)]
        /\ (IsTick /\ Pending(currentState, nextState, l, onState, idleState)) =>
             /\ currentState'[l] = idleState
             /\ state'[l] = STATE_IDLE
             /\ ~relay'[RelayOf(l)] ]_vars

\* a tick is due for a loop that has been heating for the minimum dwell and whose
\* latest sample was right and is at or above target + margin
C28_Witness ==
  \E l \in Loops :
    /\ Pending(currentState, nextState, l, onState, onState)
    /\ relay[RelayOf(l)]
    /\ timeInCurrentState[l] >= Dwell
    /\ lastSample[l] = "ok"
    /\ temperatureCurrent[l] >= temperatureTarget[l] + temperatureMargin
    /\ quickLoopTimer >= QUICK_LOOP_INTERVAL
    /\ ~SampleDue

\* in memory m the relay of each loop is on exactly if the loop is in On
RelayFollowsLoop(m) ==
  \A l \in Loops : m.relay[RelayOf(l)] <=> m.currentState[l] = onState

\* C29: in every state between two handlers relay 1 is on exactly if loop 1 is in On
\* and relay 2 exactly if loop 2 is in On; and from every such state this is so again
\* after a relay command of any form, after the automatic switch-off, after a
\* setOnOff, setTarget or setCalibration for either loop, after a tick and after a
\* reboot.
C29_RelayOnIffLoopOn ==
  /\ RelayFollowsLoop(Mem)
  /\ \A c \in RelayCommands \cup { d \o v : d \in { << "1" >>, << "2" >> }, v \in ProbeVerbs } :
       RelayFollowsLoop(triggerRelay(Mem, RelayTimers, c).m)
  /\ RelayFollowsLoop(turnOffRelaySweep(Mem, RelayTimers).m)
  /\ \A dev3 \in { AmbientDevice, [ search |-> FALSE, reads |-> ReadsOkAfter(3, Deg(30)) ] },
        dht \in Acquisitions :
       RelayFollowsLoop(quickLoopWithSweep(Mem, RelayTimers, TRUE, ColdDevice, ColdDevice,
                                           dev3, dht).m)
  /\ RelayFollowsLoop(setup(initialRam(eeprom, relay)))
  /\ \A l \in Loops :
       /\ \A p \in { Str_on, Str_off } : RelayFollowsLoop(setOnOffOf(Mem, l, p).m)
       /\ \A T \in LimitTargets : RelayFollowsLoop(setTargetOf(Mem, l, IntToParam(T)).m)
       /\ \A C \in LimitCalibrations :
            RelayFollowsLoop(setCalibrationOf(Mem, l, IntToParam(C)).m)

\* loop 2 is heating through relay 2 and has been told to stop, loop 1 is not
\* heating, and relay 4 is on past its deadline when a tick is due
C29_Witness ==
  /\ Pending(currentState, nextState, 2, onState, offState)
  /\ relay[2] /\ ~relay[1]
  /\ relay[4] /\ DeadlinePassed(RelayTimers, 4)
  /\ quickLoopTimer >= QUICK_LOOP_INTERVAL

(***************************************************************************)
(* Sensors that never deliver a validated sample: every read fails the     *)
(* checksum, or no sensor answers the search. Ticks, the three cloud       *)
(* commands of a loop and reboots are as in Spec.                          *)
(***************************************************************************)
DeadDevices == AllFailDevices \cup { absentDevice }
DeadDevicesFor(l) == IF SampleDue /\ l = focus THEN DeadDevices ELSE { absentDevice }
DelayedDeadDevicesFor(l) == IF l = focus THEN DeadDevices ELSE { absentDevice }

NextDeadSensor ==
  \/ \E d \in DeltasNow : Advance(d)
  \/ \E dev1 \in DeadDevicesFor(1), dev2 \in DeadDevicesFor(2) : Loop(dev1, dev2)
  \/ \E dev1 \in DelayedDeadDevicesFor(1), dev2 \in DelayedDeadDevicesFor(2) :
       LoopResume(dev1, dev2)
  \/ \E p \in { Str_on, Str_off } : SetOnOff(focus, p)
  \/ \E p \in TargetParams : SetTarget(focus, p)
  \/ \E p \in CalibrationParams : SetCalibration(focus, p)
  \/ Reboot

SpecDeadSensor == Init /\ [][NextDeadSensor]_vars

\* C30: the relay of a loop is on only if the sensor of that loop has delivered a
\* validated sample since the last boot. Under SpecDeadSensor no sample is ever
\* validated, so no relay of a loop may ever be on, whatever ticks, setOnOff,
\* setTarget and setCalibration commands and reboots there are.
C30_RelayOnOnlyAfterValidatedSample ==
  \A l \in Loops : relay[RelayOf(l)] => lastSample[l] = "ok"

\* the state of loop l once loop() has run a tick, without a sample, on memory m
AfterTick(m, l) == fsmUpdate(m, l).currentState[l]

\* loop l is at rest in state s: no change of state is requested
AtRest(l, s) == currentState[l] = s /\ nextState[l] = s /\ ~needToTriggerEnter[l]

\* C31: of two setOnOff commands for a loop that arrive between two ticks the last
\* one decides: after the tick the loop is in the state that the last command
\* alone would have brought it to; "on" then "off" for a loop in Off leaves it in Off.
C31_LastSetOnOffDecides ==
  \A l \in Loops :
    (AtRest(l, offState) \/ AtRest(l, idleState) \/ AtRest(l, onState)) =>
      \A first \in { Str_on, Str_off }, last \in { Str_on, Str_off } :
        AfterTick(setOnOffOf(setOnOffOf(Mem, l, first).m, l, last).m, l)
          = AfterTick(setOnOffOf(Mem, l, last).m, l)

\* the state loop l comes up in if the controller is reset with memory m: setup(),
\* the tick that enters Init, the tick after the Init timeout that reads the
\* restored last state, and the tick that makes the change
BootsInto(m, l) ==
  LET booted == setup(initialRam(m.eeprom, m.relay))
      entered == fsmUpdate(booted, l)
      timedOut == [ entered EXCEPT !.timeInCurrentState[l] = initTimeout * MILLISECONDS_TO_SECONDS ]
      asked == fsmUpdate(timedOut, l)
  IN  fsmUpdate(asked, l).currentState[l]

\* C32: when the status of a loop is Idle or On, setOnOff "off" returns 0 and a
\* reset right after it, before any tick, brings the loop up in Off.
C32_OffSurvivesReboot ==
  \A l \in Loops :
    (state[l] = STATE_IDLE \/ state[l] = STATE_ON) =>
      \A r \in { setOnOffOf(Mem, l, Str_off) } :
        r.ret = 0 /\ BootsInto(r.m, l) = offState

\* C33: the relay of a loop is on only while the loop is in On, so it is off for
\* as long as the loop is in Init, Off or Idle, and a step turns it on only when
\* the loop has been in Idle, with the relay off, for the minimum dwell of one
\* minute: a relay that was turned off stays off for at least that long, whatever
\* commands, readings and reboots there are.
C33_RelayOffForAtLeastTheDwell ==
  [][ \A l \in Loops :
        /\ relay[RelayOf(l)] => currentState[l] = onState
        /\ (~relay[RelayOf(l)] /\ relay'[RelayOf(l)])
             => /\ currentState[l] = idleState
                /\ currentState'[l] = onState
                /\ sinceEntered[l] >= Dwell ]_vars

\* a loop whose calibration was changed has just turned its relay on for a valid
\* reading below the target
C33_Witness ==
  \E l \in Loops :
    /\ relay[RelayOf(l)]
    /\ currentState[l] = onState
    /\ sinceEntered[l] = 0
    /\ temperatureCalibration[l] # 0
    /\ lastSample[l] = "ok"

\* the EEPROM record of memory m holds the current version and the settings that
\* m has in RAM: both targets, both calibrations, and for each loop whether its
\* last state is one of Idle and On or not
RecordMatchesRam(m) ==
  /\ m.eeprom.version = EEPROM_VERSION
  /\ \A l \in Loops :
       /\ EepromTarget(m.eeprom, l) = m.temperatureTarget[l]
       /\ EepromCalibration(m.eeprom, l) = m.temperatureCalibration[l]
       /\ (EepromLastState(m.eeprom, l) = 1) <=> (m.lastState[l] \in { STATE_IDLE, STATE_ON })
       /\ EepromLastState(m.eeprom, l) \in { 0, 1 }

\* both state machines have made their first update since the boot
FirstTickDone(m) == \A l \in Loops : ~m.needToTriggerEnter[l]

\* C34: in every state between two handlers, once the first tick after the boot
\* has run, the EEPROM record has the current version and holds the targets, the
\* calibrations and the coarse last states that are in RAM; and a reset from such
\* a state finds it so again from its first tick on.
C34_RecordEqualsRamAfterFirstTick ==
  /\ FirstTickDone(Mem) => RecordMatchesRam(Mem)
  /\ \A m \in { quickLoop(setup(initialRam(eeprom, relay)), FALSE, absentDevice, absentDevice).m } :
       FirstTickDone(m) /\ RecordMatchesRam(m)

\* a loop is heating on a changed target and a changed calibration, and the record
\* holds them and the last state
C34_Witness ==
  \E l \in Loops :
    /\ FirstTickDone(Mem)
    /\ lastState[l] = STATE_ON
    /\ EepromLastState(eeprom, l) = 1
    /\ temperatureCalibration[l] # 0
    /\ EepromCalibration(eeprom, l) = temperatureCalibration[l]
    /\ EepromTarget(eeprom, l) = temperatureTarget[l]

\* readings over the range of the DS18B20 (-55 to 125 degrees) and calibrations
\* over the range that setCalibration accepts
RangeReadings == { Deg(-55), Deg(-1), Deg(0), Deg(30), Deg(125) }
RangeCalibrations == { -50, -1, 0, 1, 50 }

\* C35: whatever the loop's memory holds, after setCalibration to any value of the
\* range a sample whose read passes the checksum, at once or after failed reads,
\* leaves the loop's current temperature at the reading plus the calibration, for
\* every reading of the sensor's range.
C35_ValidSampleSetsReadingPlusCalibration ==
  \A l \in Loops : \A C \in RangeCalibrations :
    \A c \in { setCalibrationOf(Mem, l, IntToParam(C)) } :
      /\ c.ret = 0
      /\ \A raw \in RangeReadings : \A k \in { 0, 4 } :
           \A g \in { getTempOf(c.m, l, [ search |-> FALSE, reads |-> ReadsOkAfter(k, raw) ]) } :
             /\ g.sample = "ok"
             /\ g.m.temperatureCurrent[l] = raw + Deg(C)

\* C36: whatever timed, on or off commands came before, the command "<r>on" for
\* relay 3 or 4, without minutes, returns 1 with the relay on, and the automatic
\* switch-off leaves the relay on however much time passes after the command.
C36_PlainOnStaysOn ==
  \A r \in AuxRelays :
    \A x \in { triggerRelay(Mem, RelayTimers, DigitsOf(r) \o Str_on) } :
      /\ x.ret = 1
      /\ x.m.relay[r]
      /\ \A d \in { 0, RelayStep, RelayTimerCap } :
           turnOffRelaySweep(x.m, TimersAfter(x.t, d)).m.relay[r]

\* minute counts: small ones, the last whose product with 60000 fits an int, the
\* first that does not, and the first whose product passes 2^32
MinuteProbes == { 1, 5, 35791, 35792, 71583 }

\* C39: "<r>on<m>" with a positive m arms the deadline of relay 3 or 4 with a
\* positive int that is m times 60000, so that the relay is switched off after m
\* minutes.
C39_DeadlineIsMinutesTimes60000 ==
  \A r \in AuxRelays : \A minutes \in MinuteProbes :
    \A x \in { triggerRelay(Mem, RelayTimers, DigitsOf(r) \o Str_on \o DigitsOf(minutes)) } :
      /\ x.ret = 1
      /\ x.t.turnOffRelayAfterTime[r] > 0
      /\ x.t.turnOffRelayAfterTime[r] \div MILLISECONDS_TO_MINUTES = minutes
      /\ x.t.turnOffRelayAfterTime[r] % MILLISECONDS_TO_MINUTES = 0

\* calibrations set one after the other
CalibrationSteps == { -50, 1 }

\* C37: from every state, two accepted setCalibration calls for a loop, with no
\* sample between them, leave current temperature minus calibration as it was and
\* the current temperature where the second call alone would have left it; and a
\* call with the value of the call before it changes nothing in the memory.
C37_CalibrationCallsCompose ==
  \A l \in Loops : \A C1 \in CalibrationSteps, C2 \in CalibrationSteps :
    \A a \in { setCalibrationOf(Mem, l, IntToParam(C1)) } :
      \A b \in { setCalibrationOf(a.m, l, IntToParam(C2)) } :
        /\ a.ret = 0 /\ b.ret = 0
        /\ a.m.temperatureCurrent[l] - a.m.temperatureCalibration[l]
             = temperatureCurrent[l] - temperatureCalibration[l]
        /\ b.m.temperatureCurrent[l] - b.m.temperatureCalibration[l]
             = temperatureCurrent[l] - temperatureCalibration[l]
        /\ b.m.temperatureCurrent[l]
             = setCalibrationOf(Mem, l, IntToParam(C2)).m.temperatureCurrent[l]
        /\ C1 = C2 => b.m = a.m

\* a loop holds a valid reading of 30 degrees shifted by the calibration of 1 that
\* it was given
C37_Witness ==
  \E l \in Loops :
    /\ lastSample[l] = "ok"
    /\ temperatureCalibration[l] = Deg(1)
    /\ temperatureCurrent[l] = Deg(30) + Deg(1)
    /\ EepromCalibration(eeprom, l) = Deg(1)

(***************************************************************************)
(* The two loops compared: the memory with the roles of pool and sauna     *)
(* exchanged, on which the functions of loop 2 are set against those of    *)
(* loop 1 on the memory as it is.                                          *)
(***************************************************************************)
Other(l) == 3 - l
SwapRelayNumber(r) == IF r \in { RelayOf(1), RelayOf(2) } THEN RelayOf(Other(r)) ELSE r
SwapEeprom(ee) ==
  [ version |-> ee.version,
    temperatureTarget |-> ee.temperatureTarget2,
    temperatureCalibration |-> ee.temperatureCalibration2,
    lastState |-> ee.lastState2,
    temperatureTarget2 |-> ee.temperatureTarget,
    temperatureCalibration2 |-> ee.temperatureCalibration,
    lastState2 |-> ee.lastState ]
SwapRelays(relays) == [ r \in Relays |-> relays[SwapRelayNumber(r)] ]
\* memory m with what belongs to loop 1 given to loop 2 and the reverse: the
\* globals with and without the suffix 2, relay 1 and relay 2, the fields of the
\* EEPROM record, and the relay number in every call of the relay board
Swap(m) ==
  [ state |-> [ l \in Loops |-> m.state[Other(l)] ],
    lastState |-> [ l \in Loops |-> m.lastState[Other(l)] ],
    currentState |-> [ l \in Loops |-> m.currentState[Other(l)] ],
    nextState |-> [ l \in Loops |-> m.nextState[Other(l)] ],
    needToTriggerEnter |-> [ l \in Loops |-> m.needToTriggerEnter[Other(l)] ],
    timeInCurrentState |-> [ l \in Loops |-> m.timeInCurrentState[Other(l)] ],
    temperatureCurrent |-> [ l \in Loops |-> m.temperatureCurrent[Other(l)] ],
    temperatureTarget |-> [ l \in Loops |-> m.temperatureTarget[Other(l)] ],
    temperatureCalibration |-> [ l \in Loops |-> m.temperatureCalibration[Other(l)] ],
    relay |-> SwapRelays(m.relay),
    eeprom |-> SwapEeprom(m.eeprom),
    relayCalls |-> [ i \in 1 .. Len(m.relayCalls) |->
                     << m.relayCalls[i][1], SwapRelayNumber(m.relayCalls[i][2]) >> ] ]

\* sensor answers set before both loops: a reading at once, one after three failed
\* reads and the delay, five failed reads, and no sensor
AlikeDevices ==
  { [ search |-> FALSE, reads |-> ReadsOkAfter(k, Deg(30)) ] : k \in { 0, 3, 5 } }
    \cup { absentDevice }

\* the memory after a boot is that of the boot with the roles exchanged, but for the
\* targets when the EEPROM record is not valid: they are then the defaults
BootsAlike ==
  LET boot == setup(initialRam(eeprom, relay))
      twin == setup(initialRam(SwapEeprom(eeprom), SwapRelays(relay)))
  IN  /\ [ Swap(boot) EXCEPT !.temperatureTarget = twin.temperatureTarget ] = twin
      /\ \A l \in Loops :
           twin.temperatureTarget[Other(l)] # boot.temperatureTarget[l]
             => /\ eeprom.version # EEPROM_VERSION
                /\ boot.temperatureTarget[l] = DefaultTarget(l)
                /\ twin.temperatureTarget[Other(l)] = DefaultTarget(Other(l))

\* C38: loop 2 behaves exactly like loop 1. In every state, each function of loop 2
\* (setOnOff2, setTarget2, setCalibration2, getTemp2, the update of FSM 2), applied
\* to the memory in which loop 2 holds what loop 1 holds, returns what the function
\* of loop 1 returns and leaves in loop 2, relay 2 and the second half of the EEPROM
\* record what the function of loop 1 leaves in loop 1, relay 1 and the first half;
\* and a boot treats both alike but for the default targets, 30 and 37. So under
\* the same commands, sensor results and ticks the two loops stay equal step by step.
C38_LoopsBehaveAlike ==
  \E twin \in { Swap(Mem) } :
    /\ \A p \in { Str_on, Str_off, << "a", "u", "t", "o" >> } :
         \A a \in { setOnOff(Mem, p) } : \A b \in { setOnOff2(twin, p) } :
           b.ret = a.ret /\ b.m = Swap(a.m)
    /\ \A p \in TargetParams \cup { << "3", "1" >> } :
         \A a \in { setTarget(Mem, p) } : \A b \in { setTarget2(twin, p) } :
           b.ret = a.ret /\ b.m = Swap(a.m)
    /\ \A p \in CalibrationParams :
         \A a \in { setCalibration(Mem, p) } : \A b \in { setCalibration2(twin, p) } :
           b.ret = a.ret /\ b.m = Swap(a.m)
    /\ \A dev \in AlikeDevices :
         \A a \in { getTemp(Mem, dev) } : \A b \in { getTemp2(twin, dev) } :
           /\ b.m = Swap(a.m)
           /\ b.delay = a.delay /\ b.reads = a.reads /\ b.sample = a.sample
    /\ fsmUpdate(twin, 2) = Swap(fsmUpdate(Mem, 1))
    /\ BootsAlike

\* loop 1 heats on relay 1 with a calibration, after a validated sample, and its
\* target and calibration are in the EEPROM record
C38_Witness ==
  /\ currentState[1] = onState /\ relay[RelayOf(1)] /\ ~relay[RelayOf(2)]
  /\ lastSample[1] = "ok"
  /\ temperatureCalibration[1] # 0
  /\ EepromCalibration(eeprom, 1) = temperatureCalibration[1]
  /\ EepromTarget(eeprom, 1) = temperatureTarget[1]

====
